---- MODULE Spec2Model ----
(***************************************************************************)
(* A model of cellocity: channel.py (Channel, MedianChannel) and           *)
(* analysis.py (FlowAnalyzer, FarenbackAnalyzer, OpenPivAnalyzer,          *)
(* FlowSpeedAnalysis, AlignmentIndexAnalysis, IopAnalysis).                *)
(*                                                                         *)
(* Conventions.  A frame of a channel is one sample (the median filter     *)
(* works along the time axis, pixel by pixel) with a shape, its height and *)
(* width.  A Python value is a record [kind, b, n, arr, exc, warn]: kind   *)
(* is "None", "bool", "int", "float", "array", "vector", "tuple",          *)
(* "object" or "error"; exc names the exception of an error and warn the   *)
(* warning issued on the way.  np.median is kept in half units,            *)
(* a unit scaler in thousandths, np.sqrt in units of 1/SqrtScale, rounded  *)
(* down, a window centre in half pixels until it is cast, an average as a  *)
(* fraction, and progress as the binary64 number Python computes.          *)
(*                                                                         *)
(* The specifications share the actions: Spec (the timing methods of a     *)
(* channel), SpecMedian (the temporal median filter), SpecFlow (the flow   *)
(* computations and the speeds), SpecScaler (the unit scaler), SpecMeta    *)
(* (construction from the metadata of a file), SpecField (the analyses of  *)
(* computed flows), SpecProgress (progress of the flow computations),      *)
(* SpecDerived and SpecLazy (the derived results and their caches) and     *)
(* SpecImageJ (the timing of an ImageJ file, in binary64).                 *)
(***************************************************************************)
EXTENDS Integers, Sequences, FiniteSets, TLC

\* ------------------------------------------------------------------ bounds

MaxFrames == 4
MaxPix == 2
MaxWindow == 3

\* ------------------------------------------------------------ Python values

PyNone == [kind |-> "None", b |-> FALSE, n |-> 0, arr |-> <<>>, exc |-> "", warn |-> ""]
PyBool(x) == [PyNone EXCEPT !.kind = "bool", !.b = x]
PyInt(x) == [PyNone EXCEPT !.kind = "int", !.n = x]
PyArray(a) == [PyNone EXCEPT !.kind = "array", !.arr = a]
PyObject == [PyNone EXCEPT !.kind = "object"]
PyRaise(e) == [PyNone EXCEPT !.kind = "error", !.exc = e]
\* a value computed while numpy issued a RuntimeWarning
PyWarn(v) == [v EXCEPT !.warn = "RuntimeWarning"]

Range(s) == {s[i] : i \in DOMAIN s}
Min(a, b) == IF a < b THEN a ELSE b
Abs(x) == IF x < 0 THEN -x ELSE x

RECURSIVE Sum(_)
Sum(s) == IF s = <<>> THEN 0 ELSE s[1] + Sum(Tail(s))

\* arr[lo:hi] of Python, 0-based, for 0 <= lo: the slice is clipped to the array
Slice(a, lo, hi) == SubSeq(a, lo + 1, Min(hi, Len(a)))

\* the k-th smallest entry of a non-empty sequence
KthSmallest(s, k) ==
    CHOOSE v \in Range(s) :
        /\ Cardinality({i \in DOMAIN s : s[i] < v}) < k
        /\ k <= Cardinality({i \in DOMAIN s : s[i] <= v})

\* np.median along the time axis, in half units
np_median(s) ==
    IF Len(s) % 2 = 1
    THEN 2 * KthSmallest(s, (Len(s) + 1) \div 2)
    ELSE KthSmallest(s, Len(s) \div 2) + KthSmallest(s, Len(s) \div 2 + 1)

\* tif: the image file; ch: the Channel made from it; med: the MedianChannel
\* derived from ch; pc, loc: the position and the locals of the method that is
\* running; call, ret: the method called last, with its arguments, and what it
\* returned or raised; an: the FarenbackAnalyzer and the OpenPivAnalyzer on ch;
\* sa: the FlowSpeedAnalysis
VARIABLES tif, ch, med, pc, loc, call, ret, an, sa

vars == <<tif, ch, med, pc, loc, call, ret, an, sa>>

\* ---------------------------------------------------------------- Channel

\* Channel._page_extractor: the pages of the channel, in file order
_page_extractor(t) == t.pages

\* Channel._extractElapsedTimes
_extractElapsedTimes(t, pages, finterval_ms) ==
    IF t.is_micromanager
    THEN [i \in DOMAIN pages |-> pages[i].ElapsedTime_ms]
    ELSE [i \in DOMAIN pages |-> (i - 1) * finterval_ms]

\* Channel.__init__
Channel(t) ==
    [pxSize_um |-> t.PixelSize_um,
     finterval_ms |-> t.Interval_ms,
     pages |-> _page_extractor(t),
     elapsedTimes_ms |-> _extractElapsedTimes(t, _page_extractor(t), t.Interval_ms),
     array |-> PyArray(<<>>),
     actualFrameIntervals_ms |-> PyNone]

\* Channel.getArray: len(self.array) raises TypeError unless array is a sequence
getArray(o) ==
    IF o.array.kind # "array" THEN PyRaise("TypeError")
    ELSE IF Len(o.array.arr) # 0 THEN o.array
    ELSE PyArray([i \in DOMAIN o.pages |-> o.pages[i].data])

\* Channel.getArray: the pages whose asarray() a call of getArray reads, in the
\* order of the reads (0-based): none when self.array is populated, else page 0
\* for the dtype and then every page in index order
asarray_calls(o) ==
    IF o.array.kind = "array" /\ Len(o.array.arr) # 0 THEN <<>>
    ELSE <<0>> \o [i \in DOMAIN o.pages |-> i - 1]

\* the truth value of (x != None): None gives False; a numpy array compares
\* elementwise, and the truth value of an array of two or more entries raises
NotNoneTruth(x) ==
    IF x.kind = "None" THEN PyBool(FALSE)
    ELSE IF x.kind = "array" /\ Len(x.arr) >= 2 THEN PyRaise("ValueError")
    ELSE IF x.kind = "array" /\ Len(x.arr) = 0 THEN PyBool(FALSE)
    ELSE PyBool(TRUE)

\* getActualFrameIntevals_ms with the leading 0 its docstring speaks of
getActualFrameIntevals_msLeadingZero(o) ==
    IF Len(o.pages) = 1 THEN PyNone
    ELSE PyArray(<<0>> \o [k \in 1..(Len(o.elapsedTimes_ms) - 1) |->
                              o.elapsedTimes_ms[k + 1] - o.elapsedTimes_ms[k]])

\* Channel.getActualFrameIntevals_ms
getActualFrameIntevals_ms(o) ==
    LET cached == NotNoneTruth(o.actualFrameIntervals_ms) IN
    IF cached.kind = "error" THEN cached
    ELSE IF cached.b THEN o.actualFrameIntervals_ms
    ELSE IF Len(o.pages) = 1 THEN PyNone
    ELSE PyArray([k \in 1..(Len(o.elapsedTimes_ms) - 1) |->
                      o.elapsedTimes_ms[k + 1] - o.elapsedTimes_ms[k]])

\* Channel.getIntendedFrameInterval_ms
getIntendedFrameInterval_ms(o) == o.finterval_ms

\* abs(1 - mean/nominal) < maxDiff for maxDiff = md[1]/md[2], in exact
\* arithmetic, mean = Sum(a)/Len(a).  The mean is a numpy float: dividing it by
\* a nominal interval of 0 gives inf or nan under a RuntimeWarning, and the
\* comparison is then False
FractBelow(a, nominal, md) ==
    IF nominal = 0 THEN PyWarn(PyBool(FALSE))
    ELSE PyBool(Abs(Len(a) * nominal - Sum(a)) * md[2] < md[1] * Len(a) * nominal)

\* doFrameIntervalSanityCheck without the test for a nominal interval of 0
doFrameIntervalSanityCheckNoZeroTest(o, maxDiff) ==
    IF Len(o.pages) = 1 THEN PyNone
    ELSE LET actual == getActualFrameIntevals_ms(o) IN
         IF actual.kind = "error" THEN actual
         ELSE IF actual.kind # "array" THEN PyRaise("AttributeError")
         ELSE FractBelow(actual.arr, getIntendedFrameInterval_ms(o), maxDiff)

\* Channel.doFrameIntervalSanityCheck
doFrameIntervalSanityCheck(o, maxDiff) ==
    IF Len(o.pages) = 1 THEN PyNone
    ELSE IF getIntendedFrameInterval_ms(o) = 0 THEN PyBool(FALSE)
    ELSE LET actual == getActualFrameIntevals_ms(o) IN
         IF actual.kind = "error" THEN actual
         ELSE IF actual.kind # "array" THEN PyRaise("AttributeError")
         ELSE FractBelow(actual.arr, getIntendedFrameInterval_ms(o), maxDiff)

\* ---------------------------------------------------------- MedianChannel

\* no MedianChannel: the name is unbound (before a construction, and after a
\* construction that raised)
NoMedian ==
    [constructed |-> FALSE, doGlidingProjection |-> TRUE,
     frameSamplingInterval |-> 0, startFrame |-> 0, stopFrame |-> PyNone,
     pxSize_um |-> 0, finterval_ms |-> 0, elapsedTimes_ms |-> <<>>,
     pages |-> <<>>, array |-> PyNone, actualFrameIntervals_ms |-> PyNone,
     medianArray |-> <<>>, writes |-> <<>>, reads |-> {}]

NoLocals == [arr |-> <<>>, nr_outframes |-> 0, inframe |-> 0, outframe |-> 0]

\* MedianChannel._recalculate_elapsed_times
_recalculate_elapsed_times == <<>>

\* MedianChannel.__init__, the fields set before doTemporalMedianFilter runs.
\* writes and reads are instrumentation: how often each slot of medianArray
\* was stored to, and which source frames np.median was given
MedianFields(channel, doGlidingProjection, frameSamplingInterval, startFrame, stopFrame) ==
    [constructed |-> FALSE,
     doGlidingProjection |-> doGlidingProjection,
     frameSamplingInterval |-> frameSamplingInterval,
     startFrame |-> startFrame,
     stopFrame |-> IF stopFrame.kind = "None" THEN PyInt(Len(channel.pages))
                   ELSE stopFrame,
     pxSize_um |-> channel.pxSize_um,
     finterval_ms |-> channel.finterval_ms,
     elapsedTimes_ms |-> _recalculate_elapsed_times,
     pages |-> channel.pages,
     array |-> PyNone,
     actualFrameIntervals_ms |-> PyNone,
     medianArray |-> <<>>, writes |-> <<>>, reads |-> {}]

\* the checks of doTemporalMedianFilter without the one for too short a span
FilterValidationNoSpanTest(self, startFrame, stopFrame, frameSamplingInterval) ==
    IF stopFrame.kind = "None" \/ stopFrame.n > Len(self.pages)
    THEN PyRaise("ValueError")
    ELSE IF startFrame >= stopFrame.n THEN PyRaise("ValueError")
    ELSE PyNone

\* doTemporalMedianFilter, the three checks before the array is read
FilterValidation(self, startFrame, stopFrame, frameSamplingInterval) ==
    IF stopFrame.kind = "None" \/ stopFrame.n > Len(self.pages)
    THEN PyRaise("ValueError")
    ELSE IF startFrame >= stopFrame.n THEN PyRaise("ValueError")
    ELSE IF stopFrame.n - startFrame < frameSamplingInterval THEN PyRaise("ValueError")
    ELSE PyNone

\* doTemporalMedianFilter, the size of the output
nr_outframes(doGlidingProjection, startFrame, stopFrame, frameSamplingInterval) ==
    IF doGlidingProjection
    THEN (stopFrame - startFrame) - (frameSamplingInterval - 1)
    ELSE (stopFrame - startFrame) \div frameSamplingInterval

\* the gliding range running up to stopFrame, as the staggered one does
InRangeUpToStop(self, inframe) == inframe < self.stopFrame.n

\* range(startFrame, stopFrame - frameSamplingInterval + 1), resp.
\* range(startFrame, stopFrame, frameSamplingInterval): is inframe in the range
InRange(self, inframe) ==
    IF self.doGlidingProjection
    THEN inframe < self.stopFrame.n - self.frameSamplingInterval + 1
    ELSE inframe < self.stopFrame.n

\* the step of the range
RangeStep(self) == IF self.doGlidingProjection THEN 1 ELSE self.frameSamplingInterval

\* Channel.getTemporalMedianChannel -> MedianChannel.__init__ up to the first
\* iteration of the filter's loop.  A client derives its median channel once:
\* pc is "new" until then and "idle" afterwards
MedianChannelInit ==
    /\ pc = "new"
    /\ \E gl \in BOOLEAN, w \in 1..MaxWindow, start \in 0..MaxFrames,
          stop \in {PyNone} \cup {PyInt(k) : k \in 0..(MaxFrames + 1)} :
        LET self == MedianFields(ch, gl, w, start, stop)
            bad == FilterValidation(self, self.startFrame, self.stopFrame,
                                    self.frameSamplingInterval)
            arr == getArray(ch)
            n == nr_outframes(gl, start, self.stopFrame.n, w)
        IN /\ call' = [op |-> "MedianChannel", on |-> "ch", gl |-> gl, w |-> w,
                       start |-> start, stop |-> stop, md |-> <<0, 1>>]
           /\ IF bad.kind = "error"
              THEN /\ med' = NoMedian
                   /\ ret' = bad
                   /\ pc' = "idle"
                   /\ loc' = NoLocals
              ELSE /\ med' = [self EXCEPT !.medianArray = [i \in 1..n |-> 0],
                                          !.writes = [i \in 1..n |-> 0]]
                   /\ loc' = [arr |-> arr.arr, nr_outframes |-> n,
                              inframe |-> start, outframe |-> 0]
                   /\ ret' = PyNone
                   /\ pc' = "median_loop"
    /\ UNCHANGED <<tif, ch, an, sa>>

\* one iteration of the loop of doTemporalMedianFilter
MedianStep ==
    /\ pc = "median_loop"
    /\ InRange(med, loc.inframe)
    /\ LET lo == loc.inframe
           hi == loc.inframe + med.frameSamplingInterval
           frame_to_store == np_median(Slice(loc.arr, lo, hi))
           seen == med.reads \cup (lo..(Min(hi, Len(loc.arr)) - 1))
       IN IF loc.outframe >= loc.nr_outframes
          THEN /\ med' = NoMedian
               /\ ret' = PyRaise("IndexError")
               /\ pc' = "idle"
               /\ loc' = NoLocals
          ELSE /\ med' = [med EXCEPT !.medianArray[loc.outframe + 1] = frame_to_store,
                                     !.writes[loc.outframe + 1] = @ + 1,
                                     !.reads = seen]
               /\ loc' = [loc EXCEPT !.inframe = @ + RangeStep(med),
                                     !.outframe = @ + 1]
               /\ UNCHANGED <<ret, pc>>
    /\ UNCHANGED <<tif, ch, call, an, sa>>

\* the end of the loop: doTemporalMedianFilter returns 1, which __init__ stores
\* in self.array; then the parent's actual frame intervals are stored
MedianFinish ==
    /\ pc = "median_loop"
    /\ ~InRange(med, loc.inframe)
    /\ LET intervals == getActualFrameIntevals_ms(ch)
       IN IF intervals.kind = "error"
          THEN /\ med' = NoMedian
               /\ ret' = intervals
          ELSE /\ med' = [med EXCEPT !.array = PyInt(1),
                                     !.actualFrameIntervals_ms = intervals,
                                     !.constructed = TRUE]
               /\ ret' = PyObject
    /\ pc' = "idle"
    /\ loc' = NoLocals
    /\ UNCHANGED <<tif, ch, call, an, sa>>

\* ------------------------------------------------------- calls of a client

MaxDiffs == {<<1, 100>>, <<2, 100>>}

Target(on) == IF on = "ch" THEN ch ELSE med

Targets == {"ch"} \cup (IF med.constructed THEN {"med"} ELSE {})

NoArgs(op, on) ==
    [op |-> op, on |-> on, gl |-> FALSE, w |-> 0, start |-> 0, stop |-> PyNone,
     md |-> <<0, 1>>]

CallGetArray ==
    /\ pc \in {"new", "idle"}
    /\ \E on \in Targets :
        /\ call' = NoArgs("getArray", on)
        /\ ret' = getArray(Target(on))
    /\ UNCHANGED <<tif, ch, med, pc, loc, an, sa>>

CallGetActualFrameIntevals ==
    /\ pc \in {"new", "idle"}
    /\ \E on \in Targets :
        /\ call' = NoArgs("getActualFrameIntevals_ms", on)
        /\ ret' = getActualFrameIntevals_ms(Target(on))
    /\ UNCHANGED <<tif, ch, med, pc, loc, an, sa>>

CallSanityCheck ==
    /\ pc \in {"new", "idle"}
    /\ \E on \in Targets, md \in MaxDiffs :
        /\ call' = [NoArgs("doFrameIntervalSanityCheck", on) EXCEPT !.md = md]
        /\ ret' = doFrameIntervalSanityCheck(Target(on), md)
    /\ UNCHANGED <<tif, ch, med, pc, loc, an, sa>>

\* ------------------------------------------------------------ FlowAnalyzer

Kinds == {"Farenback", "OpenPIV"}

\* a list of units that lets millimetres per second through
allowed_unitsWithMillimetres == {"um/s", "um/min", "um/h", "mm/s"}

\* FlowAnalyzer.__init__: self.allowed_units
allowed_units == {"um/s", "um/min", "um/h"}

\* a flow vector; nan marks a vector the backend reports as NaN
Vec(u, v) == [u |-> u, v |-> v, nan |-> FALSE]
NaNVec == [u |-> 0, v |-> 0, nan |-> TRUE]

\* the positions of a field of the given height and width
Positions(shape) == (1..shape[1]) \X (1..shape[2])

Uniform(shape, vec) == [p \in Positions(shape) |-> vec]

\* Python floats (IEEE 754 binary64) as far as progress needs them: 0 and the
\* numbers of [8, 256).  Each of them is a multiple of 2^-49, and <<h, m, l>>
\* is (h * Limb^2 + m * Limb + l) * 2^-49
Limb == 2 ^ 20

Float0 == <<0, 0, 0>>

Float100 == <<100 * 2 ^ 9, 0, 0>>

\* digits that ran over Limb are carried upwards
Carry(x) ==
    LET m == x[2] + x[3] \div Limb
    IN <<x[1] + m \div Limb, m % Limb, x[3] % Limb>>

\* the binary logarithm of the spacing of binary64 around x, in units of 2^-49
UlpBits(x) ==
    IF x[1] >= 2 ^ 16 THEN 4
    ELSE IF x[1] >= 2 ^ 15 THEN 3
    ELSE IF x[1] >= 2 ^ 14 THEN 2
    ELSE IF x[1] >= 2 ^ 13 THEN 1
    ELSE 0

\* the binary64 number nearest to x plus a rest below 2^-49, ties to the even
\* one: rest is 0 for none, 1 for less than half of 2^-49, 2 for half, 3 for more
RoundToNearestEven(x, rest) ==
    LET ulp == 2 ^ UlpBits(x)
        low == x[3] % ulp
        odd == (x[3] \div ulp) % 2 = 1
        up == IF ulp = 1 THEN rest = 3 \/ (rest = 2 /\ odd)
              ELSE \/ 2 * low > ulp
                   \/ 2 * low = ulp /\ (rest > 0 \/ odd)
    IN Carry(<<x[1], x[2], x[3] - low + (IF up THEN ulp ELSE 0)>>)

\* a + b of two floats
float_add(a, b) ==
    RoundToNearestEven(Carry(<<a[1] + b[1], a[2] + b[2], a[3] + b[3]>>), 0)

\* a / d of a float and a small positive int, the quotient no less than 8
float_div(a, d) ==
    LET t2 == (a[1] % d) * Limb + a[2]
        t3 == (t2 % d) * Limb + a[3]
        r == t3 % d
        rest == IF r = 0 THEN 0 ELSE IF 2 * r < d THEN 1 ELSE IF 2 * r = d THEN 2 ELSE 3
    IN RoundToNearestEven(<<a[1] \div d, t2 \div d, t3 \div d>>, rest)

\* a <= b of two floats
float_le(a, b) ==
    \/ a[1] < b[1]
    \/ a[1] = b[1] /\ a[2] < b[2]
    \/ a[1] = b[1] /\ a[2] = b[2] /\ a[3] <= b[3]

\* an analyzer that is not constructed.  progress is a float; pairs is
\* instrumentation: for every call of the backend, the frames it was given
\* and the slice its result was stored in
NoAnalyzer ==
    [built |-> FALSE, unit |-> "", scaler |-> PyNone, flows |-> PyNone,
     flow_coordinates |-> PyNone, progress |-> Float0, pairs |-> <<>>]

RECURSIVE GCD(_, _)
GCD(a, b) == IF b = 0 THEN a ELSE GCD(b, a % b)

\* the sum of two fractions, in lowest terms
RatAdd(p, q) ==
    LET num == p[1] * q[2] + q[1] * p[2]
        den == p[2] * q[2]
        g == GCD(num, den)
    IN <<num \div g, den \div g>>

\* n/d rounded to the nearest integer, ties to the even one, as round() does
RoundHalfEven(n, d) ==
    LET q == n \div d
        r == n % d
    IN IF 2 * r < d THEN q
       ELSE IF 2 * r > d THEN q + 1
       ELSE IF q % 2 = 0 THEN q ELSE q + 1

\* FlowAnalyzer._getScaler, in thousandths: finterval_s is finterval_ms/1000,
\* and round(x, 2) keeps hundredths
_getScaler(channel, unit) ==
    IF unit = "um/min"
    THEN IF channel.finterval_ms = 0 THEN PyRaise("ZeroDivisionError")
         ELSE PyInt(channel.pxSize_um
                    * RoundHalfEven(60 * 1000 * 100, channel.finterval_ms) * 10)
    ELSE IF unit = "um/h"
    THEN IF channel.finterval_ms = 0 THEN PyRaise("ZeroDivisionError")
         ELSE PyInt(channel.pxSize_um
                    * RoundHalfEven(60 * 60 * 1000 * 100, channel.finterval_ms) * 10)
    ELSE IF unit = "um/s"
    THEN PyInt(channel.pxSize_um * channel.finterval_ms)
    ELSE PyNone

\* Analyzer.resetProgress
resetProgress == Float0

\* Analyzer.updateProgress
updateProgress(progress, increment) == float_add(progress, increment)

\* self.progress after a run of n iterations
RECURSIVE ProgressAfter(_, _)
ProgressAfter(i, n) ==
    IF i = 0 THEN resetProgress
    ELSE updateProgress(ProgressAfter(i - 1, n), float_div(Float100, n))

\* FlowAnalyzer.__init__ (and the __init__ of its two subclasses)
FlowAnalyzer(channel, unit) ==
    IF unit \notin allowed_units THEN PyRaise("AssertionError")
    ELSE _getScaler(channel, unit)

NewAnalyzer(kind, unit) ==
    /\ pc = "idle"
    /\ LET scaler == FlowAnalyzer(ch, unit)
       IN /\ call' = [op |-> "FlowAnalyzer", on |-> kind, unit |-> unit]
          /\ IF scaler.kind = "error"
             THEN /\ an' = [an EXCEPT ![kind] = NoAnalyzer]
                  /\ ret' = scaler
             ELSE /\ an' = [an EXCEPT ![kind] =
                               [NoAnalyzer EXCEPT !.built = TRUE, !.unit = unit,
                                                  !.scaler = scaler]]
                  /\ ret' = PyObject
    /\ UNCHANGED <<tif, ch, med, pc, loc, sa>>

\* ------------------------------------------------------- FarenbackAnalyzer

\* cv.calcOpticalFlowFarneback: one vector per pixel.  The solver is outside
\* the program: its result is any of these fields
DenseFields(shape) ==
    {Uniform(shape, Vec(3, 4)),
     [p \in Positions(shape) |-> Vec(p[1] - 1, p[2] - 1)]}

\* the backend given the same frame twice
FramePairSameFrame(i) == [a |-> i, b |-> i, slot |-> i]

\* the frames given to the backend in iteration i, and the slice stored to
FramePair(i) == [a |-> i, b |-> i + 1, slot |-> i]

\* a frame count taken for the number of flow frames
flow_framesOnePerFrame(arr) == Len(arr)

\* arr.shape[0] - 1: the number of flow frames, one per pair of successive frames
flow_frames(arr) == Len(arr) - 1

\* doFarenbackFlow up to the first iteration of its loop: self.flows is
\* allocated before the frame count is asserted
DoFarenbackStart ==
    /\ pc = "idle"
    /\ an["Farenback"].built
    /\ LET arr == getArray(ch)
           n == flow_frames(arr.arr)
           shape == ch.pages[1].shape
       IN /\ call' = [op |-> "doFarenbackFlow", on |-> "Farenback"]
          /\ an' = [an EXCEPT !["Farenback"].flows =
                                    PyArray([i \in 1..n |-> Uniform(shape, Vec(0, 0))]),
                              !["Farenback"].progress = resetProgress,
                              !["Farenback"].pairs = <<>>]
          /\ IF n >= 1
             THEN /\ loc' = [kind |-> "Farenback", arr |-> arr.arr, shape |-> shape,
                             i |-> 0, n_frames |-> n,
                             progress_increment |-> float_div(Float100, n)]
                  /\ pc' = "farenback_loop"
                  /\ ret' = PyNone
             ELSE /\ loc' = NoLocals
                  /\ pc' = "idle"
                  /\ ret' = PyRaise("AssertionError")
    /\ UNCHANGED <<tif, ch, med, sa>>

\* one iteration of the loop of doFarenbackFlow
FarenbackStep ==
    /\ pc = "farenback_loop"
    /\ loc.i < loc.n_frames
    /\ \E flow \in DenseFields(loc.shape) :
        an' = [an EXCEPT !["Farenback"].flows.arr[FramePair(loc.i).slot + 1] = flow,
                         !["Farenback"].pairs = Append(@, FramePair(loc.i)),
                         !["Farenback"].progress =
                             updateProgress(@, loc.progress_increment)]
    /\ loc' = [loc EXCEPT !.i = @ + 1]
    /\ UNCHANGED <<tif, ch, med, pc, call, ret, sa>>

\* the end of doFarenbackFlow
FarenbackFinish ==
    /\ pc = "farenback_loop"
    /\ loc.i >= loc.n_frames
    /\ ret' = an["Farenback"].flows
    /\ pc' = "idle"
    /\ loc' = NoLocals
    /\ UNCHANGED <<tif, ch, med, call, an, sa>>

\* --------------------------------------------------------- OpenPivAnalyzer

\* OpenPivAnalyzer.__init__: self.default_piv_params
default_piv_params ==
    [window_size |-> PyInt(64), overlap |-> PyInt(32), dt |-> PyInt(1),
     search_area_size |-> PyInt(70), sig2noise_method |-> "peak2peak"]

\* keyword arguments of doOpenPIV; PyNone and "" stand for a key not passed
NoPivParams ==
    [window_size |-> PyNone, overlap |-> PyNone, dt |-> PyNone,
     search_area_size |-> PyNone, sig2noise_method |-> ""]

PivParamSets ==
    {NoPivParams,
     [window_size |-> PyInt(2), overlap |-> PyInt(1), dt |-> PyInt(1),
      search_area_size |-> PyInt(2), sig2noise_method |-> "peak2peak"],
     [NoPivParams EXCEPT !.window_size = PyInt(2)],
     [NoPivParams EXCEPT !.window_size = PyInt(2), !.overlap = PyInt(1)],
     [NoPivParams EXCEPT !.overlap = PyInt(1)]}

\* openpiv.process.get_field_shape: the rows and columns of search windows
get_field_shape(image_size, window_size, overlap) ==
    <<(image_size[1] - window_size) \div (window_size - overlap) + 1,
      (image_size[2] - window_size) \div (window_size - overlap) + 1>>

\* openpiv.process.get_coordinates, in half pixels: the centres of the search
\* windows, x along the columns and y along the rows, y from the last row up
get_coordinates(image_size, window_size, overlap) ==
    LET fs == get_field_shape(image_size, window_size, overlap)
    IN [x |-> [p \in Positions(fs) |->
                 2 * (p[2] - 1) * (window_size - overlap) + (window_size - 1)],
        y |-> [p \in Positions(fs) |->
                 2 * (fs[1] - p[1]) * (window_size - overlap) + (window_size - 1)]]

\* openpiv.process.extended_search_area_piv: one vector per search window.  The
\* solver is outside the program: its result is any of these fields
PivFields(fs) ==
    {Uniform(fs, Vec(1, 2)),
     [p \in Positions(fs) |-> IF p = <<1, 1>> THEN NaNVec ELSE Vec(0 - 2, 2)]}

\* out_v[i] = -out_v[i]
NegateV(field) == [p \in DOMAIN field |-> [field[p] EXCEPT !.v = 0 - @]]

\* astype(np.int16) of a coordinate kept in half pixels: truncation
AsInt16(h) == IF h >= 0 THEN h \div 2 ELSE 0 - ((0 - h) \div 2)

\* doOpenPIV up to the first iteration of its loop.  backend_y and backend_uv
\* are instrumentation: what get_coordinates and extended_search_area_piv
\* returned; so is call.piv_params, the parameters the call goes on with
DoOpenPIVStart ==
    /\ pc = "idle"
    /\ an["OpenPIV"].built
    /\ \E passed \in PivParamSets :
        LET piv_params == IF passed.window_size.kind = "None"
                          THEN default_piv_params ELSE passed
            arr == getArray(ch)
            n_frames == flow_frames(arr.arr)
            shape == ch.pages[1].shape
            fs == get_field_shape(shape, piv_params.window_size.n, piv_params.overlap.n)
            xy == get_coordinates(shape, piv_params.window_size.n, piv_params.overlap.n)
            failure == IF n_frames < 1 THEN PyRaise("AssertionError")
                       ELSE IF piv_params.overlap.kind = "None" THEN PyRaise("KeyError")
                       ELSE IF fs[1] < 1 \/ fs[2] < 1 THEN PyRaise("ValueError")
                       ELSE PyNone
        IN /\ call' = [op |-> "doOpenPIV", on |-> "OpenPIV", passed |-> passed,
                       piv_params |-> piv_params]
           /\ an' = [an EXCEPT !["OpenPIV"].progress = resetProgress]
           /\ IF failure.kind = "error"
              THEN /\ loc' = NoLocals
                   /\ pc' = "idle"
                   /\ ret' = failure
              ELSE /\ loc' = [kind |-> "OpenPIV", arr |-> arr.arr, shape |-> shape,
                              i |-> 0, n_frames |-> n_frames,
                              progress_increment |-> float_div(Float100, n_frames),
                              piv_params |-> piv_params,
                              x |-> xy.x,
                              y |-> [p \in DOMAIN xy.y |-> 2 * shape[2] - xy.y[p]],
                              out |-> [i \in 1..n_frames |-> Uniform(fs, Vec(0, 0))],
                              pairs |-> <<>>, backend_y |-> xy.y, backend_uv |-> <<>>]
                   /\ pc' = "piv_loop"
                   /\ ret' = PyNone
    /\ UNCHANGED <<tif, ch, med, sa>>

\* one iteration of the loop of doOpenPIV
PivStep ==
    /\ pc = "piv_loop"
    /\ loc.i < loc.n_frames
    /\ IF \/ loc.piv_params.dt.kind = "None"
          \/ loc.piv_params.search_area_size.kind = "None"
          \/ loc.piv_params.sig2noise_method = ""
       THEN /\ ret' = PyRaise("KeyError")
            /\ pc' = "idle"
            /\ loc' = NoLocals
            /\ UNCHANGED an
       ELSE /\ \E uv \in PivFields(<<Cardinality({p[1] : p \in DOMAIN loc.x}),
                                     Cardinality({p[2] : p \in DOMAIN loc.x})>>) :
                loc' = [loc EXCEPT !.out[FramePair(loc.i).slot + 1] = NegateV(uv),
                                   !.pairs = Append(@, FramePair(loc.i)),
                                   !.backend_uv = Append(@, uv),
                                   !.i = @ + 1]
            /\ an' = [an EXCEPT !["OpenPIV"].progress =
                                    updateProgress(@, loc.progress_increment)]
            /\ UNCHANGED <<ret, pc>>
    /\ UNCHANGED <<tif, ch, med, call, sa>>

\* the end of doOpenPIV: flows and flow_coordinates are stored
PivFinish ==
    /\ pc = "piv_loop"
    /\ loc.i >= loc.n_frames
    /\ an' = [an EXCEPT !["OpenPIV"].flows = PyArray(loc.out),
                        !["OpenPIV"].pairs = loc.pairs,
                        !["OpenPIV"].flow_coordinates =
                            PyArray(<<[p \in DOMAIN loc.x |-> AsInt16(loc.x[p])],
                                      [p \in DOMAIN loc.y |-> AsInt16(loc.y[p])]>>)]
    /\ ret' = PyArray(loc.out)
    /\ pc' = "idle"
    /\ loc' = NoLocals
    /\ UNCHANGED <<tif, ch, med, call, sa>>

\* ------------------------------------------------------- FlowSpeedAnalysis

SqrtScale == 10

\* np.sqrt, in units of 1/SqrtScale, rounded down
np_sqrt(q) ==
    CHOOSE r \in 0..(SqrtScale * q) :
        r * r <= q * SqrtScale * SqrtScale /\ q * SqrtScale * SqrtScale < (r + 1) * (r + 1)

\* no analysis object.  sa stands for the one analysis object of the client: a
\* FlowSpeedAnalysis, an AlignmentIndexAnalysis or an IopAnalysis, class says
\* which, and the fields are those of the three classes
NoAnalysis ==
    [built |-> FALSE, class |-> "", analyzer |-> "", speeds |-> PyNone,
     avg_speeds |-> PyNone, histograms |-> PyNone,
     alignment_idxs |-> PyNone, avg_alignment_idxs |-> PyNone]

\* what a method of an analysis object leaves behind: the object, the value
\* returned or raised, and as instrumentation the calculate methods that ran,
\* the outermost first
Outcome(s, r, made) == [sa |-> s, ret |-> r, made |-> made]

\* the outcome of a method that ran inside the method named outer
Inside(outer, out) == [out EXCEPT !.made = <<outer>> \o @]

\* a speed: val in units of 1/(1000 * SqrtScale), or NaN
Speed(vec, scaler) ==
    IF vec.nan THEN [val |-> 0, nan |-> TRUE]
    ELSE [val |-> np_sqrt(vec.u * vec.u + vec.v * vec.v) * scaler, nan |-> FALSE]

\* calculateSpeeds: np.sqrt(np.square(flows).sum(axis=3)) * scaler
SpeedsOf(flows, scaler) ==
    [t \in DOMAIN flows |-> [p \in DOMAIN flows[t] |-> Speed(flows[t][p], scaler)]]

\* calculateSpeeds ignoring its argument
ScalerUsedAlwaysOwn(scaler, analyzer) == analyzer.scaler

\* calculateSpeeds: the scaler in effect
ScalerUsed(scaler, analyzer) == IF scaler.kind = "None" THEN analyzer.scaler ELSE scaler

\* FlowSpeedAnalysis.__init__
NewSpeedAnalysis ==
    /\ pc = "idle"
    /\ ~sa.built
    /\ \E kind \in Kinds :
        /\ an[kind].built
        /\ sa' = [NoAnalysis EXCEPT !.built = TRUE, !.analyzer = kind,
                                    !.class = "FlowSpeedAnalysis"]
        /\ call' = [op |-> "FlowSpeedAnalysis", on |-> kind]
    /\ ret' = PyObject
    /\ UNCHANGED <<tif, ch, med, pc, loc, an>>

\* scaler arguments of calculateSpeeds: none, two numbers, and something that
\* is no number
ScalerArgs == {PyNone, PyInt(0), PyInt(2500), PyObject}

\* FlowSpeedAnalysis.calculateSpeeds: np.square raises on flows that are None
calculateSpeeds(s, arg, analyzer) ==
    LET scaler == ScalerUsed(arg, analyzer)
        flows == analyzer.flows
    IN IF scaler.kind # "int"
       THEN Outcome(s, PyRaise("AssertionError"), <<"calculateSpeeds">>)
       ELSE IF flows.kind # "array"
       THEN Outcome(s, PyRaise("TypeError"), <<"calculateSpeeds">>)
       ELSE Outcome([s EXCEPT !.speeds = PyArray(SpeedsOf(flows.arr, scaler.n))],
                    PyArray(SpeedsOf(flows.arr, scaler.n)), <<"calculateSpeeds">>)

\* a call of a method of the analysis object without arguments, and its outcome
Method(op, out) ==
    /\ pc = "idle"
    /\ call' = [op |-> op, on |-> sa.analyzer, made |-> out.made]
    /\ sa' = out.sa
    /\ ret' = out.ret
    /\ UNCHANGED <<tif, ch, med, pc, loc, an>>

CalculateSpeeds ==
    /\ pc = "idle"
    /\ sa.built /\ sa.class = "FlowSpeedAnalysis"
    /\ \E arg \in ScalerArgs :
        LET out == calculateSpeeds(sa, arg, an[sa.analyzer])
        IN /\ call' = [op |-> "calculateSpeeds", on |-> sa.analyzer, scaler |-> arg,
                       made |-> out.made]
           /\ sa' = out.sa
           /\ ret' = out.ret
    /\ UNCHANGED <<tif, ch, med, pc, loc, an>>

\* ------------------------------------------------- averages over a frame

\* a number of an array of floats: the fraction q[1]/q[2], or NaN; a
\* denominator of 0 is an infinity
Q(num, den) == [q |-> <<num, den>>, nan |-> FALSE]
NaNQ == [q |-> <<0, 1>>, nan |-> TRUE]

\* a 1D array of such numbers, one per frame
PyVector(a) == [PyNone EXCEPT !.kind = "vector", !.arr = a]

\* a fraction in lowest terms, the denominator positive
Reduce(q) ==
    LET g == GCD(Abs(q[1]), Abs(q[2]))
    IN IF q[2] < 0 THEN <<(0 - q[1]) \div g, (0 - q[2]) \div g>>
       ELSE <<q[1] \div g, q[2] \div g>>

\* a division that gives 0 where the quotient is undefined
np_divideZeroForUndefined(num, den) ==
    IF den = 0 THEN Q(0, 1) ELSE [q |-> Reduce(<<num, den>>), nan |-> FALSE]

\* np.divide of two numbers: 0/0 is NaN and x/0 an infinity, each under a
\* RuntimeWarning and neither raising
np_divide(num, den) ==
    IF den = 0 /\ num = 0 THEN NaNQ
    ELSE IF den = 0 THEN Q(IF num > 0 THEN 1 ELSE 0 - 1, 0)
    ELSE [q |-> Reduce(<<num, den>>), nan |-> FALSE]

RECURSIVE SumOver(_, _)
SumOver(f, D) ==
    IF D = {} THEN 0
    ELSE LET p == CHOOSE x \in D : TRUE IN f[p] + SumOver(f, D \ {p})

RECURSIVE RatSumOver(_, _)
RatSumOver(f, D) ==
    IF D = {} THEN <<0, 1>>
    ELSE LET p == CHOOSE x \in D : TRUE IN RatAdd(f[p].q, RatSumOver(f, D \ {p}))

\* ndarray.mean(axis=(1,2)) for one frame: NaN as soon as one entry is
MeanOver(frame, D) ==
    LET total == RatSumOver(frame, D)
    IN [q |-> Reduce(<<total[1], total[2] * Cardinality(D)>>), nan |-> FALSE]

np_mean(frame) ==
    IF \E p \in DOMAIN frame : frame[p].nan THEN NaNQ
    ELSE MeanOver(frame, DOMAIN frame)

\* np.nanmean(axis=(1,2)) for one frame: the mean of the entries that are no
\* NaN, and NaN (under a RuntimeWarning) when there is none
np_nanmean(frame) ==
    LET D == {p \in DOMAIN frame : ~frame[p].nan}
    IN IF D = {} THEN NaNQ ELSE MeanOver(frame, D)

\* np.isnan(x.any()): any() is a bool, and a bool is no NaN
np_isnan_of_any(arr) == FALSE

\* np.isnan(x).any() that finds no NaN
np_isnan_anyNeverFound(arr) == FALSE

\* np.isnan(x).any()
np_isnan_any(arr) == \E t \in DOMAIN arr : \E p \in DOMAIN arr[t] : arr[t][p].nan

\* the speeds of a frame as numbers
SpeedsAsQ(frame) == [p \in DOMAIN frame |-> [q |-> <<frame[p].val, 1>>, nan |-> frame[p].nan]]

\* FlowSpeedAnalysis.calculateAverageSpeeds, the averaging
AverageSpeedsOf(speeds) ==
    [t \in DOMAIN speeds |->
        IF np_isnan_any(speeds) THEN np_nanmean(SpeedsAsQ(speeds[t]))
        ELSE np_mean(SpeedsAsQ(speeds[t]))]

\* FlowSpeedAnalysis.calculateAverageSpeeds: speeds are calculated first, with
\* the analyzer's scaler, when there are none
calculateAverageSpeeds(s, analyzer) ==
    LET first == IF s.speeds.kind = "None" THEN calculateSpeeds(s, PyNone, analyzer)
                 ELSE Outcome(s, s.speeds, <<>>)
        avg == PyVector(AverageSpeedsOf(first.sa.speeds.arr))
    IN Inside("calculateAverageSpeeds",
              IF first.ret.kind = "error" THEN first
              ELSE Outcome([first.sa EXCEPT !.avg_speeds = avg], avg, first.made))

CalculateAverageSpeeds ==
    /\ sa.built /\ sa.class = "FlowSpeedAnalysis"
    /\ Method("calculateAverageSpeeds", calculateAverageSpeeds(sa, an[sa.analyzer]))

\* FlowSpeedAnalysis.getSpeeds
getSpeeds(s, analyzer) ==
    IF s.speeds.kind = "None"
    THEN LET first == calculateSpeeds(s, PyNone, analyzer)
         IN IF first.ret.kind = "error" THEN first
            ELSE Outcome(first.sa, first.sa.speeds, first.made)
    ELSE Outcome(s, s.speeds, <<>>)

GetSpeeds ==
    /\ sa.built /\ sa.class = "FlowSpeedAnalysis"
    /\ Method("getSpeeds", getSpeeds(sa, an[sa.analyzer]))

\* getAvgSpeeds that calculates on every call
getAvgSpeedsAlwaysCalculating(s, analyzer) ==
    LET first == calculateAverageSpeeds(s, analyzer)
    IN IF first.ret.kind = "error" THEN first
       ELSE Outcome(first.sa, first.sa.avg_speeds, first.made)

\* FlowSpeedAnalysis.getAvgSpeeds
getAvgSpeeds(s, analyzer) ==
    IF s.avg_speeds.kind = "None"
    THEN LET first == calculateAverageSpeeds(s, analyzer)
         IN IF first.ret.kind = "error" THEN first
            ELSE Outcome(first.sa, first.sa.avg_speeds, first.made)
    ELSE Outcome(s, s.avg_speeds, <<>>)

GetAvgSpeeds ==
    /\ sa.built /\ sa.class = "FlowSpeedAnalysis"
    /\ Method("getAvgSpeeds", getAvgSpeeds(sa, an[sa.analyzer]))

\* a tuple
PyTuple(a) == [PyNone EXCEPT !.kind = "tuple", !.arr = a]

\* the largest of a set of naturals, 0 for none
Max(S) == IF S = {} THEN 0 ELSE CHOOSE x \in S : \A y \in S : y <= x

\* FlowSpeedAnalysis.calculateHistograms(nbins=1, density=False): the range is
\* 0 to the largest speed, so the one bin of a frame counts all its speeds.
\* self.speeds.max() raises on an empty array and is NaN when a speed is NaN,
\* and np.histogram raises on a range that is not finite; a range of 0 to 0 is
\* widened by a half on either side.  The edges are kept in halves of the
\* unit of the speeds
calculateHistograms(s, analyzer) ==
    LET first == IF s.speeds.kind = "None" THEN calculateSpeeds(s, PyNone, analyzer)
                 ELSE Outcome(s, s.speeds, <<>>)
        speeds == first.sa.speeds.arr
        max == Max({speeds[t][p].val : t \in DOMAIN speeds, p \in DOMAIN speeds[1]})
        hists == [t \in DOMAIN speeds |-> Cardinality(DOMAIN speeds[t])]
        bins == IF max = 0 THEN <<0 - 1, 1>> ELSE <<0, 2 * max>>
    IN Inside("calculateHistograms",
              IF first.ret.kind = "error" THEN first
              ELSE IF Len(speeds) = 0 \/ np_isnan_any(speeds)
              THEN Outcome(first.sa, PyRaise("ValueError"), first.made)
              ELSE Outcome([first.sa EXCEPT !.histograms = PyTuple(<<hists, bins>>)],
                           PyTuple(<<hists, bins>>), first.made))

CalculateHistograms ==
    /\ sa.built /\ sa.class = "FlowSpeedAnalysis"
    /\ Method("calculateHistograms", calculateHistograms(sa, an[sa.analyzer]))

\* -------------------------------------------------- AlignmentIndexAnalysis

\* AlignmentIndexAnalysis._alignment_index for the vectors of one frame.  The
\* mean vector is (su/n, sv/n); the magnitudes are roots, rounded as np_sqrt
\* rounds; n cancels in the quotient.  A NaN among the vectors makes the mean
\* vector, and with it every entry, NaN
_alignment_index(field) ==
    LET su == SumOver([p \in DOMAIN field |-> field[p].u], DOMAIN field)
        sv == SumOver([p \in DOMAIN field |-> field[p].v], DOMAIN field)
        v0_magnitude == np_sqrt(su * su + sv * sv)
        vector_magnitudes ==
            [p \in DOMAIN field |-> np_sqrt(field[p].u * field[p].u + field[p].v * field[p].v)]
        dot_products == [p \in DOMAIN field |-> field[p].u * su + field[p].v * sv]
    IN [p \in DOMAIN field |->
           IF \E r \in DOMAIN field : field[r].nan THEN NaNQ
           ELSE np_divide(dot_products[p] * SqrtScale * SqrtScale,
                          vector_magnitudes[p] * v0_magnitude)]

\* AlignmentIndexAnalysis.__init__
NewAlignmentIndexAnalysis ==
    /\ pc = "idle"
    /\ ~sa.built
    /\ \E kind \in Kinds :
        /\ an[kind].built
        /\ sa' = [NoAnalysis EXCEPT !.built = TRUE, !.analyzer = kind,
                                    !.class = "AlignmentIndexAnalysis"]
        /\ call' = [op |-> "AlignmentIndexAnalysis", on |-> kind]
    /\ ret' = PyObject
    /\ UNCHANGED <<tif, ch, med, pc, loc, an>>

\* calculateAlignIdxs, frame by frame; flows.shape raises when there are no flows
AlignIdxsOf(flows) ==
    IF flows.kind # "array" THEN PyRaise("AttributeError")
    ELSE PyArray([t \in DOMAIN flows.arr |-> _alignment_index(flows.arr[t])])

\* AlignmentIndexAnalysis.calculateAlignIdxs
calculateAlignIdxs(s, analyzer) ==
    LET idxs == AlignIdxsOf(analyzer.flows)
    IN Outcome(IF idxs.kind = "error" THEN s ELSE [s EXCEPT !.alignment_idxs = idxs],
               idxs, <<"calculateAlignIdxs">>)

CalculateAlignIdxs ==
    /\ sa.built /\ sa.class = "AlignmentIndexAnalysis"
    /\ Method("calculateAlignIdxs", calculateAlignIdxs(sa, an[sa.analyzer]))

\* AlignmentIndexAnalysis.calculateAverage, the averaging: the test for NaN is
\* np.isnan(self.alignment_idxs.any())
AverageAlignIdxsOf(idxs) ==
    [t \in DOMAIN idxs |->
        IF np_isnan_of_any(idxs) THEN np_nanmean(idxs[t]) ELSE np_mean(idxs[t])]

\* AlignmentIndexAnalysis.calculateAverage
calculateAverage(s, analyzer) ==
    LET first == IF s.alignment_idxs.kind = "None" THEN calculateAlignIdxs(s, analyzer)
                 ELSE Outcome(s, s.alignment_idxs, <<>>)
        avg == PyVector(AverageAlignIdxsOf(first.sa.alignment_idxs.arr))
    IN Inside("calculateAverage",
              IF first.ret.kind = "error" THEN first
              ELSE Outcome([first.sa EXCEPT !.avg_alignment_idxs = avg], avg, first.made))

CalculateAverage ==
    /\ sa.built /\ sa.class = "AlignmentIndexAnalysis"
    /\ Method("calculateAverage", calculateAverage(sa, an[sa.analyzer]))

\* AlignmentIndexAnalysis.getAvgAlignIdxs
getAvgAlignIdxs(s, analyzer) ==
    IF s.avg_alignment_idxs.kind = "None"
    THEN LET first == calculateAverage(s, analyzer)
         IN IF first.ret.kind = "error" THEN first
            ELSE Outcome(first.sa, first.sa.avg_alignment_idxs, first.made)
    ELSE Outcome(s, s.avg_alignment_idxs, <<>>)

GetAvgAlignIdxs ==
    /\ sa.built /\ sa.class = "AlignmentIndexAnalysis"
    /\ Method("getAvgAlignIdxs", getAvgAlignIdxs(sa, an[sa.analyzer]))

\* ------------------------------------------------------------- IopAnalysis

PyFloat(x) == [PyNone EXCEPT !.kind = "float", !.arr = x.q, !.b = x.nan]

\* IopAnalysis._smvvm: np.square(np.mean(u)) + np.square(np.mean(v))
_smvvm(field) ==
    LET n == Cardinality(DOMAIN field)
        su == SumOver([p \in DOMAIN field |-> field[p].u], DOMAIN field)
        sv == SumOver([p \in DOMAIN field |-> field[p].v], DOMAIN field)
    IN IF \E r \in DOMAIN field : field[r].nan THEN NaNQ
       ELSE [q |-> Reduce(<<su * su + sv * sv, n * n>>), nan |-> FALSE]

\* IopAnalysis._instantaneous_order_parameter: self._smvvm(u, v) is evaluated,
\* then the attribute self._msv is looked up, which no class defines
_instantaneous_order_parameter(field) == PyRaise("AttributeError")

\* IopAnalysis.__init__
NewIopAnalysis ==
    /\ pc = "idle"
    /\ ~sa.built
    /\ \E kind \in Kinds :
        /\ an[kind].built
        /\ sa' = [NoAnalysis EXCEPT !.built = TRUE, !.analyzer = kind,
                                    !.class = "IopAnalysis"]
        /\ call' = [op |-> "IopAnalysis", on |-> kind]
    /\ ret' = PyObject
    /\ UNCHANGED <<tif, ch, med, pc, loc, an>>

\* a call of _instantaneous_order_parameter(get_u_array(frame), get_v_array(frame))
InstantaneousOrderParameter ==
    /\ pc = "idle"
    /\ sa.built /\ sa.class = "IopAnalysis"
    /\ an[sa.analyzer].flows.kind = "array"
    /\ \E frame \in 0..(Len(an[sa.analyzer].flows.arr) - 1) :
        /\ call' = [op |-> "_instantaneous_order_parameter", on |-> sa.analyzer,
                    frame |-> frame]
        /\ ret' = _instantaneous_order_parameter(an[sa.analyzer].flows.arr[frame + 1])
    /\ UNCHANGED <<tif, ch, med, pc, loc, an, sa>>

\* ------------------------------------------------------------ the sources

\* an image file as Channel.__init__ reads it: the calibration of its metadata
\* and its pages, each with its sample data and the time stamp of
\* Micro-Manager's metadata (0 where the file carries none);
\* shape is the height and width of a frame
Tif(mm, px, shape, interval, data, stamps) ==
    [is_micromanager |-> mm, PixelSize_um |-> px, Interval_ms |-> interval,
     pages |-> [i \in DOMAIN data |->
                   [data |-> data[i], shape |-> shape, ElapsedTime_ms |-> stamps[i]]]]

\* time stamps that start at 0 and advance by the steps st
Stamps(n, st) == [i \in 1..n |-> Sum(SubSeq(st, 1, i - 1))]

NoStamps(n) == [i \in 1..n |-> 0]

Ramp(n) == [i \in 1..n |-> i % (MaxPix + 1)]

\* sources for the timing methods: Micro-Manager files whose frames are 100,
\* 101 or 102 ms apart and ImageJ files, with a nominal interval of 0 or 100 ms
TimingTifs ==
    UNION {{Tif(TRUE, 1, <<1, 1>>, iv, Ramp(n), Stamps(n, st)) :
                iv \in {0, 100}, st \in [1..(n - 1) -> {100, 101, 102}]}
           \cup {Tif(FALSE, 1, <<1, 1>>, iv, Ramp(n), NoStamps(n)) : iv \in {0, 100}} :
           n \in 1..MaxFrames}

\* sources for the median filter: every sequence of samples
MedianTifs ==
    UNION {{Tif(FALSE, 1, <<1, 1>>, 100, d, NoStamps(n)) : d \in [1..n -> 0..MaxPix]} :
           n \in 1..MaxFrames}

\* sources for the flow computations: ImageJ files of small frames
MaxFlowFrames == 3

FlowTifs ==
    {Tif(FALSE, px, shape, iv, Ramp(n), NoStamps(n)) :
        px \in {1, 2}, shape \in {<<2, 3>>, <<3, 2>>}, iv \in {1000, 2000},
        n \in 1..MaxFlowFrames}

\* sources for the unit scaler: pixel sizes and nominal intervals
MaxPxSize == 3

ScalerTifs ==
    {Tif(FALSE, px, <<1, 1>>, iv, Ramp(1), NoStamps(1)) :
        px \in 1..MaxPxSize, iv \in {0, 100, 500, 1000, 2000, 7000, 60000}}

InitFrom(tifs, start) ==
    /\ tif \in tifs
    /\ ch = Channel(tif)
    /\ med = NoMedian
    /\ pc = start
    /\ loc = NoLocals
    /\ call = NoArgs("__init__", "ch")
    /\ ret = PyObject
    /\ an = [k \in Kinds |-> NoAnalyzer]
    /\ sa = NoAnalysis

Init == InitFrom(TimingTifs, "new")

InitMedian == InitFrom(MedianTifs, "new")

InitFlow == InitFrom(FlowTifs, "idle")

InitScaler == InitFrom(ScalerTifs, "idle")

Units == allowed_units \cup {"mm/s", "um/S", ""}

Next ==
    \/ MedianChannelInit
    \/ MedianStep
    \/ MedianFinish
    \/ CallGetArray
    \/ CallGetActualFrameIntevals
    \/ CallSanityCheck

\* a client that derives a median channel and reads the arrays
NextMedian ==
    \/ MedianChannelInit
    \/ MedianStep
    \/ MedianFinish
    \/ CallGetArray

\* a client that builds one analyzer, runs its flow computation any number of
\* times and derives speeds from it
NextFlow ==
    \/ \E kind \in Kinds, unit \in Units :
          /\ \A k \in Kinds : ~an[k].built
          /\ NewAnalyzer(kind, unit)
    \/ DoFarenbackStart
    \/ FarenbackStep
    \/ FarenbackFinish
    \/ DoOpenPIVStart
    \/ PivStep
    \/ PivFinish
    \/ NewSpeedAnalysis
    \/ CalculateSpeeds

\* a client that builds analyzers of either kind, in any unit, on one channel
NextScaler == \E kind \in Kinds, unit \in Units : NewAnalyzer(kind, unit)

Spec == Init /\ [][Next]_vars

SpecMedian == InitMedian /\ [][NextMedian]_vars

SpecFlow == InitFlow /\ [][NextFlow]_vars

SpecScaler == InitScaler /\ [][NextScaler]_vars

\* ------------------------------------------ construction from the metadata

\* a file as tifffile presents it to Channel.__init__.  PixelSize_um and
\* Interval_ms are what Micro-Manager's metadata holds under the keys its
\* version uses; XResolution, unit, tunit and finterval are ImageJ's, "" and
\* PyNone standing for a key that is absent
MetaTif(mm, ij, version, px, iv, xres, unit, tunit, finterval, n) ==
    [is_micromanager |-> mm, is_imagej |-> ij, MicroManagerVersion |-> version,
     PixelSize_um |-> px, Interval_ms |-> iv, XResolution |-> xres,
     unit |-> unit, tunit |-> tunit, finterval |-> finterval,
     pages |-> [i \in 1..n |-> [data |-> i % (MaxPix + 1), shape |-> <<1, 1>>,
                                ElapsedTime_ms |-> 100 * (i - 1)]]]

\* re.search of the three patterns on the version strings of the sources
beta_regex(version) == version \in {"2.0.0-beta3 20180923"}
one4_regex(version) == version \in {"1.4.23 20180220"}
gamma_regex(version) == version \in {"2.0.0-gamma1 20190527"}

centimeter_strings == {"cm", "centimeter", "centimeters"}
millimeter_strings == {"mm", "millimeter", "millimeters"}
micrometer_strings == {"\\u00B5m", "um", "micrometer", "micron"}

minute_strings == {"min", "mins", "minutes", "m"}
hour_strings == {"hour", "hours", "h"}
second_strings == {"seconds", "sec", "s"}

\* Channel._read_px_size: a version none of the patterns matches falls off the
\* end of the method, which returns None; a unit in none of the lists leaves
\* px_size_um unassigned at the return
_read_px_size(f) ==
    IF f.is_micromanager
    THEN IF beta_regex(f.MicroManagerVersion) THEN PyInt(f.PixelSize_um)
         ELSE IF one4_regex(f.MicroManagerVersion) THEN PyInt(f.PixelSize_um)
         ELSE IF gamma_regex(f.MicroManagerVersion) THEN PyInt(f.PixelSize_um)
         ELSE PyNone
    ELSE IF f.is_imagej
    THEN LET divisor == f.XResolution[1]
             dividend == f.XResolution[2]
             sz_unit == IF f.unit = "" THEN "\\u00B5m" ELSE f.unit
         IN IF divisor = 0 THEN PyRaise("ValueError")
            ELSE IF sz_unit \in centimeter_strings
            THEN PyInt((dividend \div divisor) * 10 * 1000)
            ELSE IF sz_unit \in millimeter_strings
            THEN PyInt((dividend \div divisor) * 1000)
            ELSE IF sz_unit \in micrometer_strings
            THEN PyInt(dividend \div divisor)
            ELSE PyRaise("UnboundLocalError")
    ELSE PyRaise("ValueError")

\* Channel._read_finteval
_read_finteval(f) ==
    IF f.is_micromanager
    THEN IF beta_regex(f.MicroManagerVersion) THEN PyInt(f.Interval_ms)
         ELSE IF one4_regex(f.MicroManagerVersion) THEN PyInt(f.Interval_ms)
         ELSE IF gamma_regex(f.MicroManagerVersion) THEN PyInt(f.Interval_ms)
         ELSE PyNone
    ELSE IF f.is_imagej
    THEN LET finterval == IF f.finterval.kind = "None" THEN 1 ELSE f.finterval.n
             tunit == IF f.tunit = "" THEN "s" ELSE f.tunit
         IN IF tunit \in minute_strings THEN PyInt(60 * 1000 * finterval)
            ELSE IF tunit \in hour_strings THEN PyInt(60 * 60 * 1000 * finterval)
            ELSE IF tunit \in second_strings THEN PyInt(1000 * finterval)
            ELSE PyRaise("UnboundLocalError")
    ELSE PyRaise("ValueError")

\* no Channel: the name is unbound
NoChannel ==
    [pxSize_um |-> PyNone, finterval_ms |-> PyNone, pages |-> <<>>,
     elapsedTimes_ms |-> <<>>, array |-> PyNone, actualFrameIntervals_ms |-> PyNone]

\* Channel.__init__ on the metadata: the calibration as the two readers return
\* it.  An ImageJ channel adds the interval up for its time stamps, which is a
\* TypeError when the interval is no number
ChannelFromMetadata(f) ==
    LET px == _read_px_size(f)
        iv == _read_finteval(f)
    IN IF px.kind = "error" THEN px
       ELSE IF iv.kind = "error" THEN iv
       ELSE IF ~f.is_micromanager /\ iv.kind # "int" THEN PyRaise("TypeError")
       ELSE [PyObject EXCEPT !.arr =
                <<[pxSize_um |-> px, finterval_ms |-> iv,
                   pages |-> _page_extractor(f),
                   elapsedTimes_ms |-> _extractElapsedTimes(f, _page_extractor(f), iv.n),
                   array |-> PyArray(<<>>),
                   actualFrameIntervals_ms |-> PyNone]>>]

\* Channel(chIndex, tiffFile, name): pc is "unbuilt" until the constructor ran
NewChannel ==
    /\ pc = "unbuilt"
    /\ LET made == ChannelFromMetadata(tif)
       IN /\ ret' = IF made.kind = "error" THEN made ELSE PyObject
          /\ ch' = IF made.kind = "error" THEN NoChannel ELSE made.arr[1]
          /\ pc' = IF made.kind = "error" THEN "failed" ELSE "new"
    /\ call' = NoArgs("Channel", "ch")
    /\ UNCHANGED <<tif, med, loc, an, sa>>

\* sources for the construction: Micro-Manager files of the three versions the
\* code knows and of two it does not, ImageJ files with size and time units in
\* and outside the lists, and a file that is neither
MMVersions ==
    {"1.4.23 20180220", "2.0.0-gamma1 20190527", "2.0.0-beta3 20180923",
     "1.3.40 20100101", "2.0.1 20220523"}

SizeUnits == {"", "cm", "mm", "um", "micron", "\\u00B5m", "nm", "inch"}

TimeUnits == {"", "s", "sec", "min", "h", "hours", "ms"}

MetaTifs ==
    {MetaTif(TRUE, FALSE, v, px, iv, <<1, 1>>, "", "", PyNone, n) :
        v \in MMVersions, px \in {1, 2}, iv \in {0, 100}, n \in 1..2}
    \cup {MetaTif(FALSE, TRUE, "", 0, 0, xres, u, tu, fi, n) :
            xres \in {<<1, 2>>, <<0, 1>>}, u \in SizeUnits, tu \in TimeUnits,
            fi \in {PyNone, PyInt(2)}, n \in 1..2}
    \cup {MetaTif(FALSE, FALSE, "", 0, 0, <<1, 1>>, "", "", PyNone, 1)}

InitMeta ==
    /\ tif \in MetaTifs
    /\ ch = NoChannel
    /\ med = NoMedian
    /\ pc = "unbuilt"
    /\ loc = NoLocals
    /\ call = NoArgs("", "")
    /\ ret = PyNone
    /\ an = [k \in Kinds |-> NoAnalyzer]
    /\ sa = NoAnalysis

\* a client that constructs a channel from a file
NextMeta == NewChannel

SpecMeta == InitMeta /\ [][NextMeta]_vars

\* ---------------------------------------------- analyses of computed flows

MaxFieldFrames == 2

\* flow fields a windowed computation can leave: uniform ones, one of them of
\* vectors of irrational length and one of zero vectors; fields with one zero,
\* one NaN or one opposed vector among equal ones; vectors that alternate in
\* sign; vectors of three directions
Fields(fs) ==
    {Uniform(fs, Vec(3, 4)),
     Uniform(fs, Vec(3, 3)),
     Uniform(fs, Vec(0, 0)),
     [p \in Positions(fs) |-> IF p = <<1, 1>> THEN Vec(0, 0) ELSE Vec(3, 4)],
     [p \in Positions(fs) |-> IF p = <<1, 1>> THEN NaNVec ELSE Vec(3, 4)],
     [p \in Positions(fs) |-> IF p = <<1, 1>> THEN Vec(0 - 3, 0 - 4) ELSE Vec(3, 4)],
     [p \in Positions(fs) |-> IF p[2] % 2 = 1 THEN Vec(1, 0) ELSE Vec(0 - 1, 0)],
     [p \in Positions(fs) |-> IF p[2] = 1 THEN Vec(1, 0)
                              ELSE IF p[2] = 2 THEN Vec(0, 1) ELSE Vec(1, 1)]}

\* sources for the analyses: ImageJ files of two shapes
FieldTifs ==
    {Tif(FALSE, 2, shape, 2000, Ramp(n), NoStamps(n)) :
        shape \in {<<2, 3>>, <<2, 4>>}, n \in 2..(MaxFieldFrames + 1)}

\* an OpenPivAnalyzer in um/s after doOpenPIV(window_size=2, overlap=1, ...)
\* returned flows
AnalyzerWithFlows(channel, flows) ==
    LET shape == channel.pages[1].shape
        xy == get_coordinates(shape, 2, 1)
    IN [NoAnalyzer EXCEPT
           !.built = TRUE, !.unit = "um/s", !.scaler = _getScaler(channel, "um/s"),
           !.flows = PyArray(flows),
           !.flow_coordinates =
               PyArray(<<[p \in DOMAIN xy.x |-> AsInt16(xy.x[p])],
                         [p \in DOMAIN xy.y |-> AsInt16(2 * shape[2] - xy.y[p])]>>),
           !.progress = ProgressAfter(Len(flows), Len(flows)),
           !.pairs = [i \in DOMAIN flows |-> FramePair(i - 1)]]

InitField ==
    /\ tif \in FieldTifs
    /\ ch = Channel(tif)
    /\ med = NoMedian
    /\ pc = "idle"
    /\ loc = NoLocals
    /\ call = [op |-> "doOpenPIV", on |-> "OpenPIV"]
    /\ \E flows \in [1..(Len(tif.pages) - 1) ->
                        Fields(get_field_shape(tif.pages[1].shape, 2, 1))] :
          /\ an = [k \in Kinds |-> IF k = "OpenPIV" THEN AnalyzerWithFlows(ch, flows)
                                   ELSE NoAnalyzer]
          /\ ret = PyArray(flows)
    /\ sa = NoAnalysis

\* a client that makes one analysis object on the analyzer and calls its methods
NextField ==
    \/ NewSpeedAnalysis
    \/ CalculateSpeeds
    \/ CalculateAverageSpeeds
    \/ NewAlignmentIndexAnalysis
    \/ CalculateAlignIdxs
    \/ CalculateAverage
    \/ NewIopAnalysis
    \/ InstantaneousOrderParameter

SpecField == InitField /\ [][NextField]_vars

\* --------------------------------------------- progress of the computations

MaxProgressFrames == 7

\* sources for the progress of a computation: frames of 2 x 2 pixels
ProgressTifs ==
    {Tif(FALSE, 1, <<2, 2>>, 1000, Ramp(n), NoStamps(n)) : n \in 1..MaxProgressFrames}

InitProgress == InitFrom(ProgressTifs, "idle")

NextProgress ==
    \/ \E kind \in Kinds :
          /\ \A k \in Kinds : ~an[k].built
          /\ NewAnalyzer(kind, "um/s")
    \/ DoFarenbackStart
    \/ FarenbackStep
    \/ FarenbackFinish
    \/ DoOpenPIVStart
    \/ PivStep
    \/ PivFinish

SpecProgress == InitProgress /\ [][NextProgress]_vars

\* ------------------------------------------- derived results and their caches

MaxDerivedFrames == 2

\* sources for the derived results: frames of 2 x 2 pixels, 2 s apart
DerivedTifs ==
    {Tif(FALSE, 1, <<2, 2>>, 2000, Ramp(n), NoStamps(n)) : n \in 1..MaxDerivedFrames}

InitDerived == InitFrom(DerivedTifs, "idle")

\* a client that builds one analyzer and one analysis object on it, and calls
\* the flow computation and the methods of the analysis object in any order
NextDerived ==
    \/ \E kind \in Kinds :
          /\ \A k \in Kinds : ~an[k].built
          /\ NewAnalyzer(kind, "um/s")
    \/ DoFarenbackStart
    \/ FarenbackStep
    \/ FarenbackFinish
    \/ DoOpenPIVStart
    \/ PivStep
    \/ PivFinish
    \/ NewSpeedAnalysis
    \/ CalculateSpeeds
    \/ CalculateAverageSpeeds
    \/ GetSpeeds
    \/ GetAvgSpeeds
    \/ CalculateHistograms
    \/ NewAlignmentIndexAnalysis
    \/ CalculateAlignIdxs
    \/ CalculateAverage
    \/ GetAvgAlignIdxs

SpecDerived == InitDerived /\ [][NextDerived]_vars

\* the state after doOpenPIV(window_size=2, overlap=1, ...) returned any of
\* the fields the backend can give
InitLazy ==
    /\ tif \in FieldTifs
    /\ ch = Channel(tif)
    /\ med = NoMedian
    /\ pc = "idle"
    /\ loc = NoLocals
    /\ call = [op |-> "doOpenPIV", on |-> "OpenPIV"]
    /\ \E flows \in [1..(Len(tif.pages) - 1) ->
                        PivFields(get_field_shape(tif.pages[1].shape, 2, 1))] :
          /\ an = [k \in Kinds |-> IF k = "OpenPIV" THEN AnalyzerWithFlows(ch, flows)
                                   ELSE NoAnalyzer]
          /\ ret = PyArray(flows)
    /\ sa = NoAnalysis

\* a client that reads speeds, alignment indexes and their averages of
\* computed flows, through the calculate methods and through the accessors
NextLazy ==
    \/ NewSpeedAnalysis
    \/ CalculateSpeeds
    \/ CalculateAverageSpeeds
    \/ GetSpeeds
    \/ GetAvgSpeeds
    \/ NewAlignmentIndexAnalysis
    \/ CalculateAlignIdxs
    \/ CalculateAverage
    \/ GetAvgAlignIdxs

SpecLazy == InitLazy /\ [][NextLazy]_vars

\* ------------------------------------- the timing of ImageJ files in binary64

\* the limbs of a - b, for a no less than b
Minus(a, b) == Carry(<<a[1] - b[1], a[2] - b[2], a[3] - b[3]>>)

\* a - b of two floats, a no less than b
float_sub(a, b) == RoundToNearestEven(Minus(a, b), 0)

\* a < b of two floats
float_lt(a, b) == ~float_le(b, a)

\* the whole part q of a / b and what it leaves of a
RECURSIVE Whole(_, _)
Whole(a, b) ==
    IF float_lt(a, b) THEN [q |-> 0, rem |-> a]
    ELSE LET w == Whole(Minus(a, b), b) IN [q |-> w.q + 1, rem |-> w.rem]

\* k more binary digits of the quotient s.q, which left s.rem, by long
\* division by b
RECURSIVE LongDivision(_, _, _)
LongDivision(s, b, k) ==
    IF k = 0 THEN s
    ELSE LET twice == Carry(<<2 * s.rem[1], 2 * s.rem[2], 2 * s.rem[3]>>) IN
         IF float_le(b, twice)
         THEN LongDivision([q |-> Carry(<<2 * s.q[1], 2 * s.q[2], 2 * s.q[3] + 1>>),
                            rem |-> Minus(twice, b)], b, k - 1)
         ELSE LongDivision([q |-> Carry(<<2 * s.q[1], 2 * s.q[2], 2 * s.q[3]>>),
                            rem |-> twice], b, k - 1)

\* the floats near 1 are kept 32-fold, where the limbs can hold them: a power
\* of two scales a float exactly
Float1 == <<32 * 2 ^ 9, 0, 0>>

\* a / b of two floats, for a quotient in [1/4, 8): 54 binary digits behind the
\* whole part are those of 32 * (a / b) down to 2^-49
float_truediv(a, b) ==
    LET w == Whole(a, b)
        d == LongDivision([q |-> <<0, 0, w.q>>, rem |-> w.rem], b, 54)
        twice == Carry(<<2 * d.rem[1], 2 * d.rem[2], 2 * d.rem[3]>>)
        rest == IF d.rem = Float0 THEN 0
                ELSE IF float_lt(twice, b) THEN 1
                ELSE IF twice = b THEN 2 ELSE 3
    IN RoundToNearestEven(d.q, rest)

\* abs(a - b) of two floats
float_absdiff(a, b) == IF float_le(b, a) THEN float_sub(a, b) ELSE float_sub(b, a)

\* numpy's sum of fewer than 8 floats: one after the other, from 0
RECURSIVE float_sum(_)
float_sum(s) ==
    IF s = <<>> THEN Float0
    ELSE float_add(float_sum(SubSeq(s, 1, Len(s) - 1)), s[Len(s)])

\* an elapsed time that never advances
elapsedStuck(i, finterval_ms) == Float0

\* Channel._extractElapsedTimes, no Micro-Manager metadata: elapsed after i
\* passes of the loop, each of which adds the nominal interval
RECURSIVE elapsed(_, _)
elapsed(i, finterval_ms) ==
    IF i = 0 THEN Float0 ELSE float_add(elapsed(i - 1, finterval_ms), finterval_ms)

\* Channel.__init__ on an ImageJ file whose nominal interval is a float
ImageJChannel(t) ==
    [pxSize_um |-> t.PixelSize_um,
     finterval_ms |-> t.Interval_ms,
     pages |-> _page_extractor(t),
     elapsedTimes_ms |-> [i \in DOMAIN t.pages |-> elapsed(i - 1, t.Interval_ms)],
     array |-> PyArray(<<>>),
     actualFrameIntervals_ms |-> PyNone]

\* Channel.getActualFrameIntevals_ms on float times
getActualFrameIntevals_ms_float(o) ==
    LET cached == NotNoneTruth(o.actualFrameIntervals_ms) IN
    IF cached.kind = "error" THEN cached
    ELSE IF cached.b THEN o.actualFrameIntervals_ms
    ELSE IF Len(o.pages) = 1 THEN PyNone
    ELSE PyArray([k \in 1..(Len(o.elapsedTimes_ms) - 1) |->
                      float_sub(o.elapsedTimes_ms[k + 1], o.elapsedTimes_ms[k])])

\* Channel.doFrameIntervalSanityCheck on float times; maxDiff is kept 32-fold
doFrameIntervalSanityCheck_float(o, maxDiff) ==
    IF Len(o.pages) = 1 THEN PyNone
    ELSE IF getIntendedFrameInterval_ms(o) = Float0 THEN PyBool(FALSE)
    ELSE LET actual == getActualFrameIntevals_ms_float(o) IN
         IF actual.kind = "error" THEN actual
         ELSE IF actual.kind # "array" THEN PyRaise("AttributeError")
         ELSE LET mean == float_div(float_sum(actual.arr), Len(actual.arr))
                  fract == float_truediv(mean, getIntendedFrameInterval_ms(o))
              IN PyBool(float_lt(float_absdiff(Float1, fract), maxDiff))

\* the default maxDiff of 0.01, 32-fold and rounded up to the next multiple of
\* 2^-49, which no comparison with 32 * abs(1 - fract) can tell from it
Hundredth == <<163, 880803, 880804>>

\* a maxDiff of 2^-53, 32-fold
HalfEpsilon == <<0, 0, 2>>

FloatMaxDiffs == {Hundredth, HalfEpsilon}

\* nominal intervals of ImageJ files, 1000 * finterval for a finterval of 0,
\* 0.01, 0.0125, 0.02, 0.0108, 0.0167 and 0.0333 seconds: the floats 0, 10.0,
\* 12.5, 20.0, 10.8, 16.7 and 33.300000000000004
FloatIntervals ==
    {Float0, <<10 * 2 ^ 9, 0, 0>>, <<25 * 2 ^ 8, 0, 0>>, <<20 * 2 ^ 9, 0, 0>>,
     <<5529, 629145, 629146>>, <<8550, 419430, 419430>>,
     <<17049, 629145, 629148>>}

MaxImageJFrames == 6

ImageJTifs ==
    {Tif(FALSE, 1, <<1, 1>>, iv, Ramp(n), NoStamps(n)) :
        iv \in FloatIntervals, n \in 1..MaxImageJFrames}

InitImageJ ==
    /\ tif \in ImageJTifs
    /\ ch = ImageJChannel(tif)
    /\ med = NoMedian
    /\ pc = "idle"
    /\ loc = NoLocals
    /\ call = NoArgs("__init__", "ch")
    /\ ret = PyObject
    /\ an = [k \in Kinds |-> NoAnalyzer]
    /\ sa = NoAnalysis

CallGetActualFrameIntevalsFloat ==
    /\ pc = "idle"
    /\ call' = NoArgs("getActualFrameIntevals_ms", "ch")
    /\ ret' = getActualFrameIntevals_ms_float(ch)
    /\ UNCHANGED <<tif, ch, med, pc, loc, an, sa>>

CallSanityCheckFloat ==
    /\ pc = "idle"
    /\ \E md \in FloatMaxDiffs :
        /\ call' = [NoArgs("doFrameIntervalSanityCheck", "ch") EXCEPT !.md = md]
        /\ ret' = doFrameIntervalSanityCheck_float(ch, md)
    /\ UNCHANGED <<tif, ch, med, pc, loc, an, sa>>

\* a client that reads the timing of an ImageJ channel
NextImageJ ==
    \/ CallGetActualFrameIntevalsFloat
    \/ CallSanityCheckFloat

SpecImageJ == InitImageJ /\ [][NextImageJ]_vars

\* ------------------------------------------------ claims about the analyzers

\* C1 (as claimed): for every pixel size and every non-zero frame interval the
\* scaler of an analyzer in um/min is 60 times the scaler of an analyzer in um/s
\* on the same channel.
C1_MinuteIsSixtySeconds ==
    \A a, b \in Kinds :
        (/\ an[a].built /\ an[a].unit = "um/min"
         /\ an[b].built /\ an[b].unit = "um/s"
         /\ ch.finterval_ms # 0)
        => an[a].scaler.n = 60 * an[b].scaler.n

\* the analyzer of the analysis object, and the scaler a call of
\* calculateSpeeds is to use
Analyzed == an[sa.analyzer]
ScalerAsked == IF call.scaler.kind = "None" THEN Analyzed.scaler ELSE call.scaler

\* C2: after calculateSpeeds() on computed flows, speeds has the time and spatial
\* extent of the flows and speeds[t][x][y] = scaler * sqrt(u^2 + v^2) for the
\* vector at (t, x, y), scaler being the analyzer's when no argument is given and
\* the argument otherwise.
C2_Speeds ==
    (/\ call.op = "calculateSpeeds"
     /\ Analyzed.flows.kind = "array" /\ ScalerAsked.kind = "int")
    => /\ ret.kind = "array"
       /\ sa.speeds = ret
       /\ DOMAIN ret.arr = DOMAIN Analyzed.flows.arr
       /\ \A t \in DOMAIN Analyzed.flows.arr :
             /\ DOMAIN ret.arr[t] = DOMAIN Analyzed.flows.arr[t]
             /\ \A p \in DOMAIN Analyzed.flows.arr[t] :
                   LET vec == Analyzed.flows.arr[t][p] IN
                   IF vec.nan THEN ret.arr[t][p].nan
                   ELSE ret.arr[t][p] =
                            [val |-> ScalerAsked.n * np_sqrt(vec.u * vec.u + vec.v * vec.v),
                             nan |-> FALSE]

\* C2, its case: speeds computed with a supplied scaler from two or more slices,
\* one of them with a vector of irrational length
C2_Witness ==
    /\ call.op = "calculateSpeeds" /\ call.scaler = PyInt(2500)
    /\ ret.kind = "array" /\ Len(ret.arr) >= 2
    /\ \E t \in DOMAIN ret.arr : \E p \in DOMAIN ret.arr[t] :
          /\ Analyzed.flows.arr[t][p] = Vec(1, 1)
          /\ ret.arr[t][p].val > 2500 * SqrtScale

\* C3: on a channel of N >= 2 frames a flow computation that has returned leaves
\* flows with N-1 slices, slice i computed from the frames (i, i+1), the pairs
\* taken in increasing i; doFarenbackFlow always returns on such a channel.
C3_Slices ==
    /\ \A k \in Kinds :
          (pc = "idle" /\ an[k].flows.kind = "array" /\ Len(ch.pages) >= 2) =>
              /\ Len(an[k].flows.arr) = Len(ch.pages) - 1
              /\ an[k].pairs = [i \in 1..(Len(ch.pages) - 1) |->
                                   [a |-> i - 1, b |-> i, slot |-> i - 1]]
    /\ (call.op = "doFarenbackFlow" /\ pc = "idle" /\ Len(ch.pages) >= 2) =>
          ret = an["Farenback"].flows
    /\ (call.op = "doOpenPIV" /\ pc = "idle" /\ ret.kind # "error") =>
          ret = an["OpenPIV"].flows

\* C3, its case: a windowed flow computation over three frames has returned
C3_Witness ==
    /\ call.op = "doOpenPIV" /\ pc = "idle" /\ ret.kind = "array"
    /\ Len(ch.pages) = 3
    /\ Len(an["OpenPIV"].flows.arr) = 2
    /\ an["OpenPIV"].flows.arr[1] # an["OpenPIV"].flows.arr[2]

\* ------------------------------------------------- claims about the channel

Frames == Len(ch.pages)
Data == [i \in DOMAIN ch.pages |-> ch.pages[i].data]

\* a construction of a MedianChannel has just returned or raised
Constructed == call.op = "MedianChannel" /\ pc = "idle"

\* the stop frame in effect: __init__ replaces an unset stopFrame by the frame count
EffStop == IF call.stop.kind = "None" THEN Frames ELSE call.stop.n

\* the arguments of the construction pass the three checks of the filter
Passes == EffStop <= Frames /\ call.start < EffStop /\ EffStop - call.start >= call.w

\* C4 (as claimed): once a MedianChannel is constructed, its array attribute
\* holds the median filtered data and getArray() returns that data without raising.
C4_ArrayHoldsFilteredData ==
    med.constructed =>
        /\ med.array = PyArray(med.medianArray)
        /\ getArray(med) = PyArray(med.medianArray)

\* C5 (as claimed): a staggered construction whose arguments pass validation
\* completes with floor((stop-start)/window) frames, frame i being the median of
\* source frames [start+i*window, start+i*window+window).
C5_StaggeredCompletes ==
    (Constructed /\ ~call.gl /\ Passes) =>
        /\ ret = PyObject
        /\ med.constructed
        /\ Len(med.medianArray) = (EffStop - call.start) \div call.w
        /\ \A i \in 0..(Len(med.medianArray) - 1) :
              med.medianArray[i + 1] =
                  np_median(SubSeq(Data, call.start + i * call.w + 1,
                                   call.start + i * call.w + call.w))

C7_AsClaimed ==
    /\ Constructed =>
          ((\/ call.stop.kind = "None"
            \/ call.stop.n > Frames
            \/ call.start >= call.stop.n
            \/ call.stop.n - call.start < call.w)
           => (ret.kind = "error" /\ med = NoMedian))
    /\ med.constructed => Len(med.medianArray) >= 1

\* C7 (amended): an unset stop stands for the frame count; a construction raises
\* ValueError and leaves no MedianChannel whenever the stop in effect exceeds the
\* frame count, start >= stop or stop-start is smaller than the window; every
\* accepted argument set has at least one output frame.
C7_Validation ==
    /\ Constructed =>
          ((\/ EffStop > Frames
            \/ call.start >= EffStop
            \/ EffStop - call.start < call.w)
           => (ret = PyRaise("ValueError") /\ med = NoMedian))
    /\ pc = "median_loop" => loc.nr_outframes >= 1
    /\ med.constructed => Len(med.medianArray) >= 1

\* C7, its case: stop is unset and the rest of the channel is shorter than the window
C7_Witness ==
    /\ Constructed /\ call.stop.kind = "None"
    /\ call.start < Frames /\ Frames - call.start < call.w
    /\ ret = PyRaise("ValueError") /\ med = NoMedian

\* the mean of the channel's actual frame intervals is m
MeanIntervalIs(m) ==
    ch.elapsedTimes_ms[Frames] - ch.elapsedTimes_ms[1] = m * (Frames - 1)

\* C8 (as claimed): with maxDiff = 0.01 and a nominal interval of 100 ms the
\* sanity check returns true for a mean actual interval of 101 ms and false for
\* one of 102 ms.
C8_Boundary ==
    (/\ call.op = "doFrameIntervalSanityCheck" /\ call.on = "ch"
     /\ call.md = <<1, 100>> /\ ch.finterval_ms = 100 /\ Frames >= 2)
    => /\ MeanIntervalIs(101) => ret = PyBool(TRUE)
       /\ MeanIntervalIs(102) => ret = PyBool(FALSE)

\* C9: the sanity check returns None on every channel of one frame and False,
\* with no division by zero on the way, on every channel of two or more frames
\* whose nominal interval is 0.
C9_NoneAndZero ==
    call.op = "doFrameIntervalSanityCheck" =>
        LET o == Target(call.on) IN
        /\ Len(o.pages) = 1 => ret = PyNone
        /\ (Len(o.pages) >= 2 /\ o.finterval_ms = 0) => ret = PyBool(FALSE)

\* C9, its case: a check of a channel of several frames with nominal interval 0
C9_Witness ==
    /\ call.op = "doFrameIntervalSanityCheck" /\ call.on = "ch"
    /\ Frames >= 2 /\ ch.finterval_ms = 0 /\ tif.is_micromanager
    /\ ret = PyBool(FALSE)

C11_Cached ==
    (call.op = "getArray" /\ call.on = "ch" /\ ret.kind = "array")
    => /\ ch.array = ret
       /\ asarray_calls(ch) = <<>>

\* C12 (as claimed): the elapsed-time sequence of the Channel, and of every
\* MedianChannel derived from it, has as many entries as the object has frames;
\* pixel size and nominal frame interval stay as construction read them.
C12_TimestampsPerFrame ==
    /\ Len(ch.elapsedTimes_ms) = Len(ch.pages)
    /\ ch.pxSize_um = tif.PixelSize_um /\ ch.finterval_ms = tif.Interval_ms
    /\ med.constructed =>
          /\ Len(med.elapsedTimes_ms) = Len(med.medianArray)
          /\ med.pxSize_um = tif.PixelSize_um /\ med.finterval_ms = tif.Interval_ms

\* the metadata of the file is of a schema or in a unit the readers do not know
Unrecognised(f) ==
    IF f.is_micromanager
    THEN ~(beta_regex(f.MicroManagerVersion) \/ one4_regex(f.MicroManagerVersion)
           \/ gamma_regex(f.MicroManagerVersion))
    ELSE /\ f.is_imagej
         /\ \/ f.unit \notin centimeter_strings \cup millimeter_strings
                             \cup micrometer_strings \cup {""}
            \/ f.tunit \notin second_strings \cup minute_strings \cup hour_strings
                              \cup {""}

\* C13 (as claimed): the construction of a Channel raises whenever the
\* Micro-Manager version matches none of beta / 1.4.x / gamma or an ImageJ size
\* or time unit is outside the vocabularies, and a construction that completes
\* never leaves a pixel size or a frame interval of None.
C13_UnrecognisedFails ==
    call.op = "Channel" =>
        /\ Unrecognised(tif) => (ret.kind = "error" /\ pc = "failed")
        /\ pc = "new" => (ch.pxSize_um.kind = "int" /\ ch.finterval_ms.kind = "int")

\* ------------------------------------------------ claims about the analyses

\* the flows under analysis, and the sums of the components of a field
Flows == Analyzed.flows.arr
SumU(field) == SumOver([p \in DOMAIN field |-> field[p].u], DOMAIN field)
SumV(field) == SumOver([p \in DOMAIN field |-> field[p].v], DOMAIN field)
HasNaN(field) == \E p \in DOMAIN field : field[p].nan
IsZero(vec) == vec.u = 0 /\ vec.v = 0

\* C14 (as claimed): every alignment index that calculateAlignIdxs() computes
\* and that is no NaN lies in [-1, 1].
C14_InRange ==
    (call.op = "calculateAlignIdxs" /\ ret.kind = "array") =>
        \A t \in DOMAIN ret.arr : \A p \in DOMAIN ret.arr[t] :
            ~ret.arr[t][p].nan =>
                /\ ret.arr[t][p].q[2] > 0
                /\ Abs(ret.arr[t][p].q[1]) <= ret.arr[t][p].q[2]

\* C15: calculateAlignIdxs() on computed flows does not raise; in a frame free
\* of NaN vectors the index is NaN at every position whose vector is zero and at
\* every position of a frame whose mean vector is zero, and it is a finite
\* number at every other position.
C15_NaNAtZero ==
    (call.op = "calculateAlignIdxs" /\ Analyzed.flows.kind = "array") =>
        /\ ret.kind = "array"
        /\ sa.alignment_idxs = ret
        /\ DOMAIN ret.arr = DOMAIN Flows
        /\ \A t \in DOMAIN Flows :
              /\ DOMAIN ret.arr[t] = DOMAIN Flows[t]
              /\ ~HasNaN(Flows[t]) =>
                    \A p \in DOMAIN Flows[t] :
                        IF IsZero(Flows[t][p]) \/ (SumU(Flows[t]) = 0 /\ SumV(Flows[t]) = 0)
                        THEN ret.arr[t][p].nan
                        ELSE ~ret.arr[t][p].nan /\ ret.arr[t][p].q[2] > 0

\* C15, its case: indexes of a frame with a zero vector beside non-zero ones,
\* and of a frame of non-zero vectors whose mean is zero
C15_Witness ==
    /\ call.op = "calculateAlignIdxs" /\ ret.kind = "array" /\ Len(ret.arr) = 2
    /\ \E p, r \in DOMAIN Flows[1] :
          /\ IsZero(Flows[1][p]) /\ ret.arr[1][p].nan
          /\ ~IsZero(Flows[1][r]) /\ ret.arr[1][r] = Q(1, 1)
    /\ SumU(Flows[2]) = 0 /\ SumV(Flows[2]) = 0
    /\ \A p \in DOMAIN Flows[2] : ~IsZero(Flows[2][p]) /\ ret.arr[2][p].nan

\* C16 (as claimed): for a frame in which some alignment indexes are NaN and at
\* least one is defined, calculateAverage() returns the mean of the defined ones.
C16_NaNAware ==
    (call.op = "calculateAverage" /\ ret.kind = "vector") =>
        \A t \in DOMAIN ret.arr :
            LET idxs == sa.alignment_idxs.arr[t]
                defined == {p \in DOMAIN idxs : ~idxs[p].nan}
            IN (defined # {} /\ defined # DOMAIN idxs) =>
                   ret.arr[t] = MeanOver(idxs, defined)

\* C17: calculateAverageSpeeds() returns one entry per flow frame, the entry of
\* a frame being the sum of its speeds that are no NaN divided by their number
\* (NaN when it has none), and stores the result in avg_speeds.
C17_AverageSpeeds ==
    (call.op = "calculateAverageSpeeds" /\ ret.kind = "vector") =>
        /\ sa.avg_speeds = ret
        /\ sa.speeds.kind = "array"
        /\ Len(ret.arr) = Len(Flows)
        /\ \A t \in DOMAIN ret.arr :
              LET speeds == sa.speeds.arr[t]
                  defined == {p \in DOMAIN speeds : ~speeds[p].nan}
                  total == SumOver([p \in DOMAIN speeds |-> speeds[p].val], defined)
              IN IF defined = {} THEN ret.arr[t].nan
                 ELSE /\ ~ret.arr[t].nan
                      /\ ret.arr[t].q[2] > 0
                      /\ ret.arr[t].q[1] * Cardinality(defined) = total * ret.arr[t].q[2]

\* C17, its case: averages over two frames, one with a NaN speed beside speeds
\* that are numbers and one without NaN, the two averages differing
C17_Witness ==
    /\ call.op = "calculateAverageSpeeds" /\ ret.kind = "vector" /\ Len(ret.arr) = 2
    /\ \E p, r \in DOMAIN sa.speeds.arr[1] :
          sa.speeds.arr[1][p].nan /\ ~sa.speeds.arr[1][r].nan
    /\ \A p \in DOMAIN sa.speeds.arr[2] : ~sa.speeds.arr[2][p].nan
    /\ ~ret.arr[1].nan /\ ~ret.arr[2].nan
    /\ ret.arr[1].q[1] > 0 /\ ret.arr[1] # ret.arr[2]

\* C18 (as claimed): _instantaneous_order_parameter(u, v) of a frame without NaN
\* and with a vector that is not zero returns |mean(u,v)|^2 / mean(u^2+v^2), a
\* number in [0, 1], which is 1 for a field of identical vectors.
C18_OrderParameter ==
    call.op = "_instantaneous_order_parameter" =>
        LET field == Flows[call.frame + 1]
            n == Cardinality(DOMAIN field)
            squares == SumOver([p \in DOMAIN field |->
                                   field[p].u * field[p].u + field[p].v * field[p].v],
                               DOMAIN field)
        IN (~HasNaN(field) /\ squares # 0) =>
               /\ ret = PyFloat([q |-> Reduce(<<_smvvm(field).q[1] * n,
                                                _smvvm(field).q[2] * squares>>),
                                 nan |-> FALSE])
               /\ 0 <= ret.arr[1] /\ ret.arr[1] <= ret.arr[2]
               /\ (\A p, r \in DOMAIN field : field[p] = field[r]) => ret.arr = <<1, 1>>

\* C19: in doOpenPIV the stored v of every frame pair is the negation of the
\* backend's v, every stored y is the image height minus the backend's y, and
\* x is stored as the backend gave it, whatever the height and width
C19_FlipByHeight ==
    pc = "piv_loop" =>
        LET height == ch.pages[1].shape[1]
            xy == get_coordinates(ch.pages[1].shape, loc.piv_params.window_size.n,
                                  loc.piv_params.overlap.n)
        IN /\ \A i \in 1..Len(loc.backend_uv) : \A p \in DOMAIN loc.out[i] :
                /\ loc.out[i][p].nan = loc.backend_uv[i][p].nan
                /\ loc.out[i][p].v = 0 - loc.backend_uv[i][p].v
                /\ loc.out[i][p].u = loc.backend_uv[i][p].u
           /\ loc.x = xy.x
           /\ \A p \in DOMAIN loc.y : loc.y[p] = 2 * height - xy.y[p]

\* C20: in a flow computation on a channel of two frames or more, progress is 0
\* when the loop starts, never exceeds 100 during the run, and is 100 when the
\* computation returns, on a first run and on every later one
C20_Progress ==
    /\ pc \in {"farenback_loop", "piv_loop"} =>
          /\ loc.i = 0 => an[loc.kind].progress = Float0
          /\ float_le(an[loc.kind].progress, Float100)
    /\ (pc = "idle" /\ call.op \in {"doFarenbackFlow", "doOpenPIV"} /\ ret.kind = "array")
          => an[call.on].progress = Float100

\* C21: doFarenbackFlow and doOpenPIV on a channel of fewer than two frames
\* raise an error: they never enter their loop and return no vector field
C21_TooFewFrames ==
    (call.op \in {"doFarenbackFlow", "doOpenPIV"} /\ Len(ch.pages) < 2)
        => pc = "idle" /\ ret.kind = "error"

\* C21: a flow computation was rejected on a channel of one frame
C21_Witness ==
    /\ call.op \in {"doFarenbackFlow", "doOpenPIV"}
    /\ Len(ch.pages) = 1
    /\ pc = "idle"
    /\ ret.kind = "error" /\ ret.exc = "AssertionError"

\* C22: the construction of an analyzer succeeds only for the units um/s,
\* um/min and um/h; with any other unit string it raises an error, no analyzer
\* comes to exist and no scaler is computed
C22_UnitsChecked ==
    call.op = "FlowAnalyzer" =>
        /\ ret.kind # "error" => call.unit \in {"um/s", "um/min", "um/h"}
        /\ call.unit \notin {"um/s", "um/min", "um/h"} =>
              /\ ret = PyRaise("AssertionError")
              /\ ~an[call.on].built
              /\ an[call.on].scaler = PyNone

\* C22: a construction with another unit string was rejected
C22_Witness ==
    /\ call.op = "FlowAnalyzer"
    /\ call.unit \in {"mm/s", "um/S", ""}
    /\ ret.kind = "error"

\* the analyzer of the analysis object has computed flows
Computed == sa.built /\ an[sa.analyzer].flows.kind = "array" /\ an[sa.analyzer].pairs # <<>>

\* C23: on an analysis object whose analyzer has computed flows, getAvgSpeeds
\* (getAvgAlignIdxs) with no cached average calculates the speeds (alignment
\* indexes) if there are none and then the average, keeps both and returns the
\* average; with a cached average it returns that one and calculates nothing
C23_Lazy ==
    [][(pc = "idle" /\ Computed /\ call'.op \in {"getAvgSpeeds", "getAvgAlignIdxs"}) =>
          LET analyzer == an[sa.analyzer]
              entries == IF call'.op = "getAvgSpeeds"
                         THEN [one |-> sa.speeds, avg |-> sa.avg_speeds,
                               one2 |-> sa'.speeds, avg2 |-> sa'.avg_speeds,
                               fresh |-> PyArray(SpeedsOf(analyzer.flows.arr, analyzer.scaler.n)),
                               calc1 |-> "calculateSpeeds", calc |-> "calculateAverageSpeeds"]
                         ELSE [one |-> sa.alignment_idxs, avg |-> sa.avg_alignment_idxs,
                               one2 |-> sa'.alignment_idxs, avg2 |-> sa'.avg_alignment_idxs,
                               fresh |-> AlignIdxsOf(analyzer.flows),
                               calc1 |-> "calculateAlignIdxs", calc |-> "calculateAverage"]
          IN IF entries.avg # PyNone
             THEN sa' = sa /\ ret' = entries.avg /\ call'.made = <<>>
             ELSE /\ entries.one = PyNone =>
                        entries.one2 = entries.fresh /\ call'.made = <<entries.calc, entries.calc1>>
                  /\ entries.one # PyNone =>
                        entries.one2 = entries.one /\ call'.made = <<entries.calc>>
                  /\ entries.avg2.kind = "vector"
                  /\ Len(entries.avg2.arr) = Len(entries.one2.arr)
                  /\ ret' = entries.avg2
      ]_vars

\* C23: getAvgSpeeds returned a cached average of a frame, calculating nothing
C23_Witness ==
    /\ Computed
    /\ call.op = "getAvgSpeeds"
    /\ call.made = <<>>
    /\ ret.kind = "vector" /\ Len(ret.arr) >= 1
    /\ ret = sa.avg_speeds

\* C24: a derived computation or accessor called before the analyzer computed
\* any flow raises an error and leaves every cached result of the analysis
\* object unset
C24_FailsWithoutFlows ==
    (/\ call.op \in {"calculateSpeeds", "getSpeeds", "getAvgSpeeds", "calculateHistograms",
                     "calculateAlignIdxs", "getAvgAlignIdxs"}
     /\ an[sa.analyzer].pairs = <<>>)
        => /\ ret.kind = "error"
           /\ sa.speeds = PyNone /\ sa.avg_speeds = PyNone /\ sa.histograms = PyNone
           /\ sa.alignment_idxs = PyNone /\ sa.avg_alignment_idxs = PyNone

\* C25: whatever was called before, the value getAvgSpeeds returns is the
\* per-frame average of the speeds the analysis object holds at that moment,
\* which are the ones getSpeeds returns
C25_AverageOfSpeeds ==
    (call.op = "getAvgSpeeds" /\ ret.kind = "vector")
        => /\ getSpeeds(sa, an[sa.analyzer]).ret = sa.speeds
           /\ ret.arr = AverageSpeedsOf(sa.speeds.arr)

\* C26: a flow computation rejected for a channel of fewer than two frames
\* leaves the analyzer as it was: on such a channel no computation ever
\* succeeded, so flows and flow_coordinates are still None
C26_RejectedLeavesAnalyzer ==
    (/\ call.op \in {"doFarenbackFlow", "doOpenPIV"}
     /\ Len(ch.pages) < 2
     /\ ret.kind = "error")
        => /\ an[call.on].flows = PyNone
           /\ an[call.on].flow_coordinates = PyNone

\* C27: with a nominal frame interval of 0 ms the construction of an analyzer
\* raises an error for each of the three units and no analyzer has a scaler
\* of 0; with any other interval the scaler of each unit is positive
C27_ZeroInterval ==
    (call.op = "FlowAnalyzer" /\ call.unit \in {"um/s", "um/min", "um/h"})
        => /\ ch.finterval_ms = 0 => ret.kind = "error"
           /\ an[call.on].built => an[call.on].scaler.kind = "int" /\ an[call.on].scaler.n > 0

\* C28: on a MedianChannel built from a channel of two frames or more,
\* getActualFrameIntevals_ms returns the intervals of the parent, one fewer
\* than its frames, and doFrameIntervalSanityCheck gives what it gives on the
\* parent
C28_MedianIntervals ==
    (call.on = "med" /\ med.constructed /\ Len(ch.pages) >= 2) =>
        /\ call.op = "getActualFrameIntevals_ms" =>
              /\ ret = getActualFrameIntevals_ms(ch)
              /\ ret.kind = "array" /\ Len(ret.arr) = Len(ch.pages) - 1
        /\ call.op = "doFrameIntervalSanityCheck" =>
              ret = doFrameIntervalSanityCheck(ch, call.md)

\* the limbs of i * a, and the float i * a
Times(i, a) == Carry(<<i * a[1], i * a[2], i * a[3]>>)

float_mul(i, a) == RoundToNearestEven(Times(i, a), 0)

\* the limbs of abs(a - b)
Apart(a, b) == IF float_le(b, a) THEN Minus(a, b) ELSE Minus(b, a)

\* 2^-43 ms, which the rounding of up to 8 sums below 256 stays under
Rounding == <<0, 0, 64>>

\* an interval of a whole number of ms
WholeMs(a) == a[1] % 2 ^ 9 = 0 /\ a[2] = 0 /\ a[3] = 0

\* C29 (amended): on a channel of F >= 2 frames from an ImageJ file with a
\* non-zero nominal interval, the elapsed time of frame i is i times the
\* nominal interval and every actual frame interval is the nominal interval to
\* within the rounding of the float sums (2^-43 ms), exactly so when the
\* interval is a whole number of ms; doFrameIntervalSanityCheck returns True
\* for the default maxDiff of 0.01, and for every maxDiff when the interval is
\* a whole number of ms.
C29_ImageJIntervals ==
    (Len(ch.pages) >= 2 /\ ch.finterval_ms # Float0) =>
        /\ \A i \in DOMAIN ch.elapsedTimes_ms :
              /\ float_le(Apart(ch.elapsedTimes_ms[i], Times(i - 1, ch.finterval_ms)),
                          Rounding)
              /\ WholeMs(ch.finterval_ms)
                    => ch.elapsedTimes_ms[i] = Times(i - 1, ch.finterval_ms)
        /\ call.op = "getActualFrameIntevals_ms" =>
              /\ ret.kind = "array" /\ Len(ret.arr) = Len(ch.pages) - 1
              /\ \A k \in DOMAIN ret.arr :
                    /\ float_le(Apart(ret.arr[k], ch.finterval_ms), Rounding)
                    /\ WholeMs(ch.finterval_ms) => ret.arr[k] = ch.finterval_ms
        /\ (call.op = "doFrameIntervalSanityCheck"
                /\ (call.md = Hundredth \/ WholeMs(ch.finterval_ms)))
              => ret = PyBool(TRUE)

\* C29 (witness): the sanity check with the default maxDiff returned True on a
\* channel one of whose actual intervals is not the nominal one.
C29_Witness ==
    /\ call.op = "doFrameIntervalSanityCheck" /\ call.md = Hundredth
    /\ ret = PyBool(TRUE)
    /\ \E k \in 1..(Len(ch.pages) - 1) :
          getActualFrameIntevals_ms_float(ch).arr[k] # ch.finterval_ms

\* C29 (as claimed): on a channel of F >= 2 frames from an ImageJ file with a
\* non-zero nominal interval, the elapsed time of frame i equals i times the
\* nominal interval, every actual frame interval equals the nominal interval,
\* and doFrameIntervalSanityCheck(maxDiff) returns True for every maxDiff > 0.
C29_ExactIntervals ==
    (Len(ch.pages) >= 2 /\ ch.finterval_ms # Float0) =>
        /\ \A i \in DOMAIN ch.elapsedTimes_ms :
              ch.elapsedTimes_ms[i] = float_mul(i - 1, ch.finterval_ms)
        /\ call.op = "getActualFrameIntevals_ms" =>
              /\ ret.kind = "array" /\ Len(ret.arr) = Len(ch.pages) - 1
              /\ \A k \in DOMAIN ret.arr : ret.arr[k] = ch.finterval_ms
        /\ call.op = "doFrameIntervalSanityCheck" => ret = PyBool(TRUE)

\* the parameters a call of doOpenPIV is to use: what the caller passed, and
\* the default for a key the caller did not pass
PassedOrDefault(passed) ==
    [window_size |-> IF passed.window_size.kind = "None"
                     THEN default_piv_params.window_size ELSE passed.window_size,
     overlap |-> IF passed.overlap.kind = "None"
                 THEN default_piv_params.overlap ELSE passed.overlap,
     dt |-> IF passed.dt.kind = "None" THEN default_piv_params.dt ELSE passed.dt,
     search_area_size |-> IF passed.search_area_size.kind = "None"
                          THEN default_piv_params.search_area_size
                          ELSE passed.search_area_size,
     sig2noise_method |-> IF passed.sig2noise_method = ""
                          THEN default_piv_params.sig2noise_method
                          ELSE passed.sig2noise_method]

\* C30 (as claimed): doOpenPIV uses, for each of its five parameters, the value
\* the caller passed when one was passed and the default otherwise: values
\* passed without window_size are not discarded, and no call on a channel of
\* two or more frames fails for a parameter that was left out.
C30_ParamsPerKey ==
    (call.op = "doOpenPIV" /\ Len(ch.pages) >= 2) =>
        /\ call.piv_params = PassedOrDefault(call.passed)
        /\ ~(ret.kind = "error" /\ ret.exc = "KeyError")

====
